---- MODULE Spec2Model ----
(***************************************************************************)
(* Polaris insights bot: the processed-insight cache (utils/cache.js), the *)
(* eligibility filter and dispatch loop (index.js), the Twitter sender     *)
(* with fallback accounts (utils/twitter.js), the rate-limit cache         *)
(* (utils/rate-limit-cache.js) and the pre-seed tool                       *)
(* (utils/preseed-cache.js).                                               *)
(*                                                                         *)
(* Times are milliseconds since the epoch, as Date.getTime() yields them;  *)
(* a timestamp that is a number below stands for the ISO string of that    *)
(* instant.  The rate-limit cache works in Unix seconds.                   *)
(***************************************************************************)
EXTENDS Integers, Sequences, FiniteSets, TLC

\* ------------------------------------------------------------------ bounds
NumIds == 3
MaxBatch == 2
MaxRuns == 2
MaxTicks == 1
MaxProcessedIdsCap == 2
MaxAccounts == 2
MaxStoreOps == 3
MaxFilterBatch == 3
MaxEnvOps == 3

\* ------------------------------------------------------- program constants
minimumAgeMinutes == 10
MsPerMinute == 60 * 1000
StartNow == 12 * MsPerMinute

\* ----------------------------------------------------------- raw timestamps
\* insight.publishedAt as the API delivers it: an instant, JSON null, a
\* missing key, or a string Date cannot parse.
NullPub == -1
AbsentPub == -2
GarbagePub == -3
NaN == -9

Ids == 1..NumIds

\* new Date(x).getTime(): null is coerced to 0, undefined and unparsable
\* strings give NaN.
ParseDate(p) ==
    IF p = NullPub THEN 0
    ELSE IF p \in {AbsentPub, GarbagePub} THEN NaN
    ELSE p

\* JavaScript truthiness of a stored publishedAt (non-empty strings are
\* truthy, null and undefined are not).
Truthy(p) == p \notin {NullPub, AbsentPub}

\* a - b, a >= b, a < b on numbers that may be NaN
NumSub(a, b) == IF a = NaN \/ b = NaN THEN NaN ELSE a - b
NumGE(a, b) == a # NaN /\ b # NaN /\ a >= b
NumLT(a, b) == a # NaN /\ b # NaN /\ a < b

\* ------------------------------------------------------------- sequences
RECURSIVE Reverse(_)
Reverse(s) == IF s = <<>> THEN <<>> ELSE Append(Reverse(Tail(s)), Head(s))

\* Array.prototype.slice(-n) for n >= 1
SliceLast(s, n) == IF Len(s) <= n THEN s ELSE SubSeq(s, Len(s) - n + 1, Len(s))

SeqsUpTo(S, n) == UNION {[1..k -> S] : k \in 1..n}

\* -------------------------------------------------------------- the items
\* The remote catalogue: item 1 is published at minute 1, item 2 at minute 2,
\* item 3 at minute 3, every further item at minute 2 again.
publishedAtOf(i) ==
    IF i = 1 THEN 1 * MsPerMinute
    ELSE IF i = 3 THEN 3 * MsPerMinute
    ELSE 2 * MsPerMinute

Item(i) == [id |-> i, publishedAt |-> publishedAtOf(i)]
Catalogue == {Item(i) : i \in Ids}

\* ------------------------------------------------------------------ state
VARIABLES
    config,               \* config.platform.mode, cache.maxProcessedIds, twitter.*
    processed,            \* contents of processed_insights.cache.json (processedIds)
    latest,               \* contents of latest_insight.cache.json
    rateLimit,            \* contents of rate_limit.cache.json
    now,                  \* wall clock, ms
    pc,                   \* where the current process is
    batch,                \* insights as fetched (API order)
    eligible,             \* eligibleInsights
    idx,                  \* position of the for..of loop in eligibleInsights
    currentAccountIndex,  \* twitter.js module variable
    runs,                 \* processes started so far
    posted,               \* per id: successful platform posts so far (saturating at 2)
    evicted,              \* some record has been dropped by the slice in writeProcessedIds
    runLog,               \* per dispatched item of this run: what happened
    haltCause,            \* why the run called process.exit(1)
    atStart,              \* the three cache files as the current process found them
    storeLog,             \* ids pushed by addProcessedInsight, oldest first
    lastAdd,              \* last addProcessedInsight call: id and whether it was present
    env,                  \* process.env as config.js reads it
    rawFile,              \* processed_insights.cache.json as found on disk, before any read
    exitCode,             \* exit status of the last process (-1: none has ended)
    net,                  \* kinds of network calls the current process has made
    rlError,              \* the error last handed to cacheRateLimitError on its own
    disk,                 \* the cache files of both environments, by file name
    inst,                 \* concurrently running instances: position and locals of each
    seeded,               \* ids a pre-seed has marked processed
    render,               \* the insight sendMessage was given and what became of it
    failedIds,            \* ids whose post failed, without a halt, in an earlier process
    probe                 \* what the pre-check's two requests came back with, and its verdict

vars == <<config, processed, latest, rateLimit, now, pc, batch, eligible, idx,
          currentAccountIndex, runs, posted, evicted, runLog, haltCause,
          atStart, storeLog, lastAdd, env, rawFile, exitCode, net,
          rlError, disk, inst, seeded, render, failedIds, probe>>

\* ------------------------------------------------------------ cache store
\* A processed entry: legacy entries are bare id strings.
LegacyEntry(i) == [id |-> i, legacy |-> TRUE, platform |-> "none", preseeded |-> FALSE]

\* metadata passed to addProcessedInsight; id = 0 means the metadata carries
\* no id key (no caller in the repository passes one).
NoMeta == [id |-> 0, preseeded |-> FALSE]
PreseedMeta == [id |-> 0, preseeded |-> TRUE]

EntryId(item) == item.id

\* a membership test that only knows bare-id entries
isInsightProcessed_BareIdsOnly(store, insightId) ==
    \E k \in 1..Len(store) : store[k].legacy /\ EntryId(store[k]) = insightId

\* isInsightProcessed: some(item => typeof item === 'string' ? item === id : item.id === id)
isInsightProcessed(store, insightId) ==
    \E k \in 1..Len(store) : EntryId(store[k]) = insightId

\* slice(0, max): keeps the oldest entries
writeProcessedIds_KeepOldest(processedIds, maxIds) ==
    IF Len(processedIds) <= maxIds THEN processedIds ELSE SubSeq(processedIds, 1, maxIds)

\* writeProcessedIds: processedIds.slice(-config.cache.maxProcessedIds)
writeProcessedIds(processedIds, maxIds) == SliceLast(processedIds, maxIds)

\* the record built by addProcessedInsight; ...metadata is spread last
insightData(insightId, metadata, mode) ==
    [id |-> IF metadata.id # 0 THEN metadata.id ELSE insightId,
     legacy |-> FALSE,
     platform |-> mode,
     preseeded |-> metadata.preseeded]

\* pushes without looking for the id
addProcessedInsight_NoGuard(store, insightId, metadata, cfg) ==
    writeProcessedIds(Append(store, insightData(insightId, metadata, cfg.mode)),
                      cfg.maxProcessedIds)

\* a present id is moved to the end with a fresh record
addProcessedInsight_Refresh(store, insightId, metadata, cfg) ==
    writeProcessedIds(
        Append(SelectSeq(store, LAMBDA e : EntryId(e) # insightId),
               insightData(insightId, metadata, cfg.mode)),
        cfg.maxProcessedIds)

addProcessedInsight(store, insightId, metadata, cfg) ==
    IF isInsightProcessed(store, insightId)
    THEN store
    ELSE writeProcessedIds(Append(store, insightData(insightId, metadata, cfg.mode)),
                           cfg.maxProcessedIds)

\* the ids of a list, in order
StoreIds(store) == [k \in 1..Len(store) |-> store[k].id]

\* the slice in writeProcessedIds dropped a record
Evicts(store, insightId, cfg) ==
    ~isInsightProcessed(store, insightId) /\ Len(store) + 1 > cfg.maxProcessedIds

\* --------------------------------------------------------- reading the file
\* processed_insights.cache.json on disk: whether it exists, what JSON.parse
\* makes of its text ("garbage": a SyntaxError), what the processedIds key of
\* a parsed object holds, and the entries when that is an array.
FileRec(ex, tx, ky, its) == [exists |-> ex, text |-> tx, key |-> ky, items |-> its]
NoFile == FileRec(FALSE, "object", "absent", <<>>)

\* what JSON.parse returned: kind of value, its processedIds property
JsonValue(kd, ky, its) == [kind |-> kd, key |-> ky, items |-> its]
EmptyObject == JsonValue("object", "absent", <<>>)

\* readCache: {} for a missing file and in the catch, else JSON.parse(data)
readCache(file) ==
    IF ~file.exists THEN EmptyObject
    ELSE IF file.text = "garbage" THEN EmptyObject
    ELSE IF file.text = "object" THEN JsonValue("object", file.key, file.items)
    ELSE JsonValue(file.text, "absent", <<>>)

\* data.processedIds on null raises a TypeError and nothing catches it
readProcessedIds_NoCatch(file) ==
    LET data == readCache(file) IN
    IF data.kind = "null" THEN [threw |-> TRUE, ids |-> <<>>]
    ELSE IF data.key = "array" THEN [threw |-> FALSE, ids |-> data.items]
    ELSE [threw |-> FALSE, ids |-> <<>>]

\* readProcessedIds: Array.isArray(data.processedIds) ? data.processedIds : [];
\* the TypeError of null.processedIds lands in its catch, which returns []
readProcessedIds(file) ==
    LET data == readCache(file) IN
    IF data.kind = "null" THEN [threw |-> FALSE, ids |-> <<>>]
    ELSE IF data.key = "array" THEN [threw |-> FALSE, ids |-> data.items]
    ELSE [threw |-> FALSE, ids |-> <<>>]

\* nothing handed to sendMessage yet
NoRender == [insight |-> <<>>, image |-> "none", sent |-> "none"]

\* --------------------------------------------------------- writing the file
\* JSON.stringify({processedIds: boundedIds, lastUpdated, totalCount}, null, 2)
Serialized(boundedIds) == FileRec(TRUE, "object", "array", boundedIds)

\* a file cut short: empty or a prefix of the JSON text, a SyntaxError on parse
Torn == FileRec(TRUE, "garbage", "absent", <<>>)

\* fs.writeFileSync(filename, text) opens the file itself with flag 'w',
\* which truncates it, and then writes: a process killed inside the call
\* leaves the old text (not yet opened), a cut text, or the new text
writeFileSync_Killed(file, data) == {file, Torn, data}

\* writeCache: the file after the call; an fs error is logged, never thrown
writeCache(file, data, fsOk) ==
    [file |-> IF fsOk THEN data ELSE file, threw |-> FALSE]

\* ------------------------------------------------------ eligibility filter
\* ageMs > minAgeMs
isOldEnough_Strict(insight, t) ==
    LET ageMs == NumSub(t, ParseDate(insight.publishedAt)) IN
    NumGE(ageMs, minimumAgeMinutes * 60 * 1000) /\ ageMs # minimumAgeMinutes * 60 * 1000

\* filterEligibleInsights: const isOldEnough = ageMs >= minAgeMs
isOldEnough(insight, t) ==
    NumGE(NumSub(t, ParseDate(insight.publishedAt)), minimumAgeMinutes * 60 * 1000)

\* filterEligibleInsights: keeps the order of its argument
filterEligibleInsights(insights, t) ==
    SelectSeq(insights, LAMBDA insight : isOldEnough(insight, t))

\* the batch filtered in API order
dispatchOrder_NoReverse(insights, t) == filterEligibleInsights(insights, t)

\* const eligibleInsights = filterEligibleInsights(insights.reverse())
dispatchOrder(insights, t) == filterEligibleInsights(Reverse(insights), t)

\* isInsightTooOld: the latest-marker comparison
NoMarker == [id |-> 0, publishedAt |-> AbsentPub]

\* no insight is ever older than the marker
isInsightTooOld_Never(insight, marker) == FALSE

isInsightTooOld(insight, marker) ==
    IF Truthy(marker.publishedAt)
    THEN NumLT(ParseDate(insight.publishedAt), ParseDate(marker.publishedAt))
    ELSE FALSE

\* ------------------------------------------------------- platform answers
\* What a post attempt or probe came back with.  status is the HTTP status,
\* code the error object's code property (0: none, as on the Errors that
\* telegram.js throws), text429 whether error.message contains '429',
\* rateLimit the twitter-api-v2 error.rateLimit object.
NoTier == [present |-> FALSE, remaining |-> -1, reset |-> 0]
Tier(rem, rst) == [present |-> TRUE, remaining |-> rem, reset |-> rst]
NoRateLimitInfo ==
    [present |-> FALSE, userDay |-> NoTier, day |-> NoTier, remaining |-> -1, reset |-> 0]
RateLimitInfo(u, d, rem, rst) ==
    [present |-> TRUE, userDay |-> u, day |-> d, remaining |-> rem, reset |-> rst]

Answer(st, c, t, rl) == [status |-> st, code |-> c, text429 |-> t, rateLimit |-> rl]
OkAnswer == Answer(200, 0, FALSE, NoRateLimitInfo)
IsOk(a) == a.status = 200

\* reset instants (Unix seconds) a platform may name
ResetSoon == (StartNow \div 1000) + 60
ResetLate == (StartNow \div 1000) + 600

\* sendTextMessage / sendPhotoMessage: the Error built from a non-2xx answer
\* carries the status and the response body in its message
TelegramAnswers ==
    {OkAnswer,
     Answer(429, 0, TRUE, NoRateLimitInfo),
     Answer(500, 0, FALSE, NoRateLimitInfo),
     Answer(400, 0, TRUE, NoRateLimitInfo)}

\* client.v2.tweet: ApiResponseError with code and rateLimit
TwitterAnswers ==
    {OkAnswer,
     Answer(429, 429, TRUE, RateLimitInfo(Tier(0, ResetLate), NoTier, 3, ResetSoon)),
     Answer(429, 429, TRUE, RateLimitInfo(NoTier, NoTier, 0, ResetSoon)),
     Answer(429, 429, TRUE, NoRateLimitInfo),
     Answer(403, 403, FALSE, NoRateLimitInfo)}

\* the platform signalled rate limiting
IsRateLimitClass(a) == a.status = 429

\* no pre-check made
NoProbe == [me |-> OkAnswer, quota |-> OkAnswer, verdict |-> "none", cached |-> FALSE]

\* ------------------------------------------------------- rate-limit cache
NoRateLimit == [limitType |-> "none", resetTimestamp |-> 0]

\* the chain with the general tier tested first
PickTier_GeneralFirst(error) ==
    LET rl == error.rateLimit IN
    IF ~rl.present THEN NoRateLimit
    ELSE IF rl.remaining = 0
         THEN [limitType |-> "general", resetTimestamp |-> rl.reset]
    ELSE IF rl.userDay.present /\ rl.userDay.remaining = 0
         THEN [limitType |-> "user-daily", resetTimestamp |-> rl.userDay.reset]
    ELSE IF rl.day.present /\ rl.day.remaining = 0
         THEN [limitType |-> "app-daily", resetTimestamp |-> rl.day.reset]
    ELSE NoRateLimit

\* cacheRateLimitError: the tier the if / else-if chain selects
PickTier(error) ==
    LET rl == error.rateLimit IN
    IF ~rl.present THEN NoRateLimit
    ELSE IF rl.userDay.present /\ rl.userDay.remaining = 0
         THEN [limitType |-> "user-daily", resetTimestamp |-> rl.userDay.reset]
    ELSE IF rl.day.present /\ rl.day.remaining = 0
         THEN [limitType |-> "app-daily", resetTimestamp |-> rl.day.reset]
    ELSE IF rl.remaining = 0
         THEN [limitType |-> "general", resetTimestamp |-> rl.reset]
    ELSE NoRateLimit

\* cacheRateLimitError: the file afterwards (written only if (resetTimestamp))
cacheRateLimitError(error, file) ==
    IF PickTier(error).resetTimestamp # 0 THEN PickTier(error) ELSE file

\* a record still counts at the very second of its reset
isRateLimited_Inclusive(file, t) ==
    /\ file.resetTimestamp # 0
    /\ file.resetTimestamp - (t \div 1000) >= 0

\* checkCachedRateLimit(...).isRateLimited, after readRateLimitCache
isRateLimited(file, t) ==
    /\ file # NoRateLimit
    /\ file.resetTimestamp # 0
    /\ file.resetTimestamp - (t \div 1000) > 0

\* ------------------------------------------------------------ environment
\* process.env as config.js reads it.  PLATFORM_MODE "" stands for an unset
\* variable; token, chatId and testChatId tell whether the variable holds a
\* non-empty value; creds and testCreds are the Twitter credential
\* variables that do.
CredFields == {"apiKey", "apiSecret", "accessToken", "accessTokenSecret"}

EnvRec(m, tm, tok, chat, tchat, cr, tcr) ==
    [PLATFORM_MODE |-> m, testMode |-> tm, token |-> tok, chatId |-> chat,
     testChatId |-> tchat, creds |-> cr, testCreds |-> tcr]

Envs ==
    {EnvRec(m, tm, tok, chat, tchat, {}, {}) :
        m \in {"", "telegram"}, tm \in BOOLEAN, tok \in BOOLEAN, chat \in BOOLEAN,
        tchat \in BOOLEAN}
    \cup
    {EnvRec("twitter", tm, FALSE, FALSE, FALSE, cr, tcr) :
        tm \in BOOLEAN, cr \in SUBSET CredFields, tcr \in SUBSET CredFields}
    \cup
    {EnvRec("discord", tm, TRUE, TRUE, TRUE, CredFields, CredFields) : tm \in BOOLEAN}

\* const platformMode = process.env.PLATFORM_MODE || 'telegram'
platformMode(e) == IF e.PLATFORM_MODE = "" THEN "telegram" ELSE e.PLATFORM_MODE

\* getChatId returns instead of throwing
getChatId(e) == IF e.testMode THEN e.testChatId ELSE e.chatId

\* getTwitterCredentials: the fields that come out truthy
getTwitterCredentials(e) == IF e.testMode THEN e.testCreds \cup e.creds ELSE e.creds

\* checks the platform mode only
validateConfig_ModeOnly(e) == platformMode(e) \in {"telegram", "twitter"}

\* validateConfig returns instead of throwing
validateConfig(e) ==
    IF platformMode(e) = "telegram" THEN e.token /\ getChatId(e)
    ELSE IF platformMode(e) = "twitter" THEN getTwitterCredentials(e) = CredFields
    ELSE FALSE

\* getChatId: the chat a Telegram message goes to
chatTarget(e) == IF e.testMode THEN "test" ELSE "production"

\* getTwitterCredentials: where field f of the credentials comes from;
\* in test mode config.twitter.testX || config.twitter.X
credentialSource(e, f) ==
    IF e.testMode /\ f \in e.testCreds THEN "test" ELSE "production"

\* const isTestMode = process.env.TEST_MODE === 'true'
isTestMode(e) == e.testMode

\* config.cache.filename and config.cache.processedIdsFilename
cacheFilename(e) ==
    IF isTestMode(e) THEN "test_latest_insight.cache.json" ELSE "latest_insight.cache.json"
processedIdsFilename(e) ==
    IF isTestMode(e) THEN "test_processed_insights.cache.json"
    ELSE "processed_insights.cache.json"

\* the rate-limit file under one name whatever the mode
getRateLimitCacheFilename_NoPrefix(e) == "rate_limit.cache.json"

\* getRateLimitCacheFilename: config.telegram.testMode || config.twitter.testMode
getRateLimitCacheFilename(e) ==
    IF isTestMode(e) \/ isTestMode(e) THEN "test_rate_limit.cache.json"
    ELSE "rate_limit.cache.json"

\* an environment with everything set, and one that lacks the first thing
\* validateConfig looks for
GoodEnv(mode) == EnvRec(mode, FALSE, TRUE, TRUE, TRUE, CredFields, CredFields)
BadEnv(mode) == EnvRec(mode, FALSE, FALSE, TRUE, TRUE, CredFields \ {"apiKey"}, {})

\* ---------------------------------------------------------- configurations
Configs ==
    {[mode |-> "telegram", maxProcessedIds |-> m, enableFallback |-> FALSE, numAccounts |-> 1] :
        m \in 1..MaxProcessedIdsCap}
    \cup
    {[mode |-> "twitter", maxProcessedIds |-> m, enableFallback |-> (n > 1), numAccounts |-> n] :
        m \in 1..MaxProcessedIdsCap, n \in 1..MaxAccounts}

Stopped == {"idle", "done", "halted", "failed", "preseeded", "dryrun"}

Init ==
    /\ config \in Configs
    /\ processed = <<>>
    /\ latest = NoMarker
    /\ rateLimit = NoRateLimit
    /\ now = StartNow
    /\ pc = "idle"
    /\ batch = <<>>
    /\ eligible = <<>>
    /\ idx = 0
    /\ currentAccountIndex = 0
    /\ runs = 0
    /\ posted = [i \in Ids |-> 0]
    /\ evicted = FALSE
    /\ runLog = <<>>
    /\ haltCause = "none"
    /\ atStart = [processed |-> processed, latest |-> NoMarker, rateLimit |-> NoRateLimit]
    /\ storeLog = <<>>
    /\ lastAdd = [id |-> 0, present |-> FALSE]
    /\ env \in {GoodEnv(config.mode), BadEnv(config.mode)}
    /\ rawFile = NoFile
    /\ exitCode = -1
    /\ net = {}
    /\ rlError = OkAnswer
    /\ disk = <<>>
    /\ inst = <<>>
    /\ seeded = {}
    /\ render = NoRender
    /\ failedIds = {}
    /\ probe = NoProbe

\* the ids the process that just ended logged as failed, added to the earlier
FailedSoFar ==
    failedIds \cup {runLog[k].id : k \in {j \in 1..Len(runLog) : runLog[j].res = "failed"}}

\* a new process: module state is fresh
StartProcess ==
    /\ pc \in Stopped
    /\ failedIds' = FailedSoFar
    /\ runs < MaxRuns
    /\ runs' = runs + 1
    /\ currentAccountIndex' = 0
    /\ runLog' = <<>>
    /\ haltCause' = "none"
    /\ idx' = 1
    /\ atStart' = [processed |-> processed, latest |-> latest, rateLimit |-> rateLimit]

\* main: validateConfig throws, the catch calls process.exit(1)
RunConfigError ==
    /\ StartProcess
    /\ ~validateConfig(env)
    /\ pc' = "failed"
    /\ exitCode' = 1
    /\ net' = {}
    /\ batch' = <<>>
    /\ eligible' = <<>>
    /\ UNCHANGED <<config, env, rawFile, render, probe, rlError, disk, inst, seeded, processed, latest, rateLimit, now, posted, evicted,
                   storeLog, lastAdd>>

\* the thrown fetch error is logged and the process ends like any other
RunFetchFail_ExitZero ==
    /\ StartProcess
    /\ validateConfig(env)
    /\ pc' = "failed"
    /\ exitCode' = 0
    /\ net' = {"fetch"}
    /\ batch' = <<>>
    /\ eligible' = <<>>
    /\ UNCHANGED <<config, env, rawFile, render, probe, rlError, disk, inst, seeded, processed, latest, rateLimit, now, posted, evicted,
                   storeLog, lastAdd>>

\* processNewPublishedInsights: the fetch answers non-2xx; main() exits 1
RunFetchFail ==
    /\ StartProcess
    /\ validateConfig(env)
    /\ pc' = "failed"
    /\ exitCode' = 1
    /\ net' = {"fetch"}
    /\ batch' = <<>>
    /\ eligible' = <<>>
    /\ UNCHANGED <<config, env, rawFile, render, probe, rlError, disk, inst, seeded, processed, latest, rateLimit, now, posted, evicted,
                   storeLog, lastAdd>>

\* processNewPublishedInsights: an empty array; returns, exit 0
RunFetchEmpty ==
    /\ StartProcess
    /\ validateConfig(env)
    /\ pc' = "done"
    /\ exitCode' = 0
    /\ net' = {"fetch"}
    /\ batch' = <<>>
    /\ eligible' = <<>>
    /\ UNCHANGED <<config, env, rawFile, render, probe, rlError, disk, inst, seeded, processed, latest, rateLimit, now, posted, evicted,
                   storeLog, lastAdd>>

\* processNewPublishedInsights: fetch, reverse, filter
RunFetch ==
    /\ StartProcess
    /\ validateConfig(env)
    /\ \E b \in SeqsUpTo(Catalogue, MaxBatch) :
          /\ batch' = b
          /\ eligible' = dispatchOrder(b, now)
    /\ pc' = IF config.mode = "twitter" THEN "ratecheck" ELSE "dispatch"
    /\ exitCode' = -1
    /\ net' = {"fetch"}
    /\ UNCHANGED <<config, env, rawFile, render, probe, rlError, disk, inst, seeded, processed, latest, rateLimit, now, posted, evicted,
                   storeLog, lastAdd>>

\* time passes between processes
Tick ==
    /\ pc \in Stopped
    /\ now < StartNow + MaxTicks * MsPerMinute
    /\ now' = now + MsPerMinute
    /\ UNCHANGED <<atStart, config, env, rawFile, render, probe, failedIds, rlError, disk, inst, seeded, processed, latest, rateLimit, pc, exitCode, batch, eligible, idx,
                   currentAccountIndex, runs, net, posted, evicted, runLog, haltCause,
                   storeLog, lastAdd>>

\* ------------------------------------------------------------ the senders
\* the text fallback is itself tried twice
TelegramSend_RetryFallback(first, second) ==
    IF IsOk(first)
    THEN [ok |-> TRUE, error |-> OkAnswer, attempts |-> 1, r429 |-> FALSE,
          after429 |-> FALSE]
    ELSE [ok |-> IsOk(second), error |-> second, attempts |-> IF IsOk(second) THEN 2 ELSE 3,
          r429 |-> IsRateLimitClass(first) \/ IsRateLimitClass(second),
          after429 |-> IsRateLimitClass(first)]

\* sendMessage's catch rethrows on Telegram as it does on Twitter
TelegramSend_NoFallback(first, second) ==
    [ok |-> IsOk(first), error |-> first, attempts |-> 1,
     r429 |-> IsRateLimitClass(first), after429 |-> FALSE]

\* sendMessage on Telegram: sendTelegramMessage (photo when getImageForInsight
\* gave an image, else text); when that throws, one sendTextMessage fallback.
\* first, second: the answers of the two sends.
TelegramSend(first, second) ==
    IF IsOk(first)
    THEN [ok |-> TRUE, error |-> OkAnswer, attempts |-> 1, r429 |-> FALSE,
          after429 |-> FALSE]
    ELSE [ok |-> IsOk(second), error |-> second, attempts |-> 2,
          r429 |-> IsRateLimitClass(first) \/ IsRateLimitClass(second),
          after429 |-> IsRateLimitClass(first)]

\* sendInsightToTwitter: the attempt loop.  answers[attempt + 1] is what
\* the platform answers to that attempt; acct is currentAccountIndex and
\* file the rate-limit cache, both as the attempt finds them.
RECURSIVE TwitterSend(_, _, _, _, _, _)
TwitterSend(attempt, answers, acct, file, cfg, seen429) ==
    LET maxRetries == IF cfg.enableFallback THEN cfg.numAccounts ELSE 1
        a == answers[attempt + 1]
    IN  IF IsOk(a)
        THEN [ok |-> TRUE, error |-> OkAnswer, attempts |-> attempt + 1,
              acct |-> IF attempt > 0 THEN 0 ELSE acct, file |-> file, r429 |-> seen429,
              after429 |-> seen429]
        ELSE IF a.code = 429
        THEN IF cfg.enableFallback /\ attempt < maxRetries - 1 /\ acct + 1 < cfg.numAccounts
             THEN TwitterSend(attempt + 1, answers, acct + 1,
                              cacheRateLimitError(a, file), cfg, TRUE)
             ELSE [ok |-> FALSE, error |-> a, attempts |-> attempt + 1, acct |-> acct,
                   file |-> cacheRateLimitError(a, file), r429 |-> TRUE,
                   after429 |-> seen429]
        ELSE [ok |-> FALSE, error |-> a, attempts |-> attempt + 1, acct |-> acct,
              file |-> file, r429 |-> seen429, after429 |-> seen429]

\* the catch of the dispatch loop: error.message.includes('429') || error.code === 429
HaltsRun(error) == error.text429 \/ error.code = 429

\* the catch of the dispatch loop: if (error.rateLimit) cacheRateLimitError(error)
CacheOnHalt(error, file) ==
    IF error.rateLimit.present THEN cacheRateLimitError(error, file) ELSE file

Bump(f, i) == [f EXCEPT ![i] = IF @ < 2 THEN @ + 1 ELSE @]

\* runLog entry: what the loop did with insight i; r429: some post attempt got a
\* rate-limit answer; status: the answer sendMessage ended with (0: no send);
\* paused: the iteration ended with the one-second setTimeout; after429: a
\* post attempt was made after an earlier one for this insight got a
\* rate-limit answer
LogEntry(i, res, r, n, ph, st, pz, a9) ==
    [id |-> i, res |-> res, r429 |-> r, attempts |-> n, photo |-> ph, status |-> st,
     paused |-> pz, after429 |-> a9]

\* ------------------------------------------------------ rate-limit pre-check
\* checkTwitterRateLimit: an active cached record refuses without a probe
RateCheckCached ==
    /\ pc = "ratecheck"
    /\ isRateLimited(rateLimit, now)
    /\ pc' = "halted"
    /\ exitCode' = 1
    /\ haltCause' = "cached"
    /\ UNCHANGED <<atStart, config, env, rawFile, render, probe, failedIds, rlError, disk, inst, seeded, processed, latest, rateLimit, now, batch, eligible, idx,
                   currentAccountIndex, runs, net, posted, evicted, runLog, storeLog, lastAdd>>

\* checkTwitterRateLimit: the live probe lets the run go on (all fine, an
\* error of v2.me() that is neither 401 nor 429, or any error of the
\* rate_limit_status request, which the inner catch only logs)
RateCheckPass ==
    /\ pc = "ratecheck"
    /\ ~isRateLimited(rateLimit, now)
    /\ pc' = "dispatch"
    /\ net' = net \cup {"probe"}
    /\ UNCHANGED <<exitCode, atStart, config, env, rawFile, render, probe, failedIds, rlError, disk, inst, seeded, processed, latest, rateLimit, now, batch, eligible, idx,
                   currentAccountIndex, runs, posted, evicted, runLog, haltCause,
                   storeLog, lastAdd>>

\* the probe's refusals: /statuses/update has remaining 0, or v2.me() failed
\* with 401 or with 429
ProbeRefusals ==
    {Answer(200, 0, FALSE, RateLimitInfo(NoTier, NoTier, 0, ResetSoon)),
     Answer(401, 401, FALSE, NoRateLimitInfo)}
    \cup {a \in TwitterAnswers : a.code = 429}

RateCheckRefuse ==
    /\ pc = "ratecheck"
    /\ ~isRateLimited(rateLimit, now)
    /\ \E a \in ProbeRefusals :
          /\ rateLimit' = IF a.code = 401 THEN rateLimit ELSE cacheRateLimitError(a, rateLimit)
          /\ haltCause' = IF a.code = 429 THEN "probe429" ELSE "probe"
    /\ pc' = "halted"
    /\ exitCode' = 1
    /\ net' = net \cup {"probe"}
    /\ UNCHANGED <<atStart, config, env, rawFile, render, probe, failedIds, rlError, disk, inst, seeded, processed, latest, now, batch, eligible, idx,
                   currentAccountIndex, runs, posted, evicted, runLog, storeLog, lastAdd>>

\* ------------------------------------------- the pre-check, request by request
\* reset instant of a record that has run out
ResetPast == (StartNow \div 1000) - 60

\* client.v2.me(): the user, or an ApiResponseError
MeAnswers ==
    {OkAnswer,
     Answer(401, 401, FALSE, NoRateLimitInfo),
     Answer(429, 429, TRUE, RateLimitInfo(NoTier, NoTier, 0, ResetSoon)),
     Answer(429, 429, TRUE, NoRateLimitInfo),
     Answer(403, 403, FALSE, NoRateLimitInfo),
     Answer(500, 500, FALSE, NoRateLimitInfo)}

\* client.v1.get('application/rate_limit_status.json'): /statuses/update with
\* something or nothing remaining, no such resource, or an ApiResponseError
QuotaAnswers ==
    {Answer(200, 0, FALSE, RateLimitInfo(NoTier, NoTier, 3, ResetSoon)),
     Answer(200, 0, FALSE, RateLimitInfo(NoTier, NoTier, 0, ResetSoon)),
     OkAnswer,
     Answer(401, 401, FALSE, NoRateLimitInfo),
     Answer(429, 429, TRUE, RateLimitInfo(NoTier, NoTier, 0, ResetSoon)),
     Answer(403, 403, FALSE, NoRateLimitInfo)}

\* every failure of v2.me() refuses
checkTwitterRateLimit_FailClosed(file, t, me, quota) ==
    IF isRateLimited(file, t)
    THEN [canPost |-> FALSE, cached |-> TRUE, file |-> file]
    ELSE IF ~IsOk(me)
    THEN [canPost |-> FALSE, cached |-> FALSE,
          file |-> IF me.code = 429 THEN cacheRateLimitError(me, file) ELSE file]
    ELSE IF IsOk(quota) /\ quota.rateLimit.present /\ quota.rateLimit.remaining = 0
    THEN [canPost |-> FALSE, cached |-> FALSE, file |-> cacheRateLimitError(quota, file)]
    ELSE [canPost |-> TRUE, cached |-> FALSE, file |-> file]

\* checkTwitterRateLimit: the verdict and the rate-limit cache afterwards.
\* An active cached record refuses without a request; else v2.me(), whose
\* error lands in the outer catch (401 and 429 refuse, anything else lets the
\* run proceed), then the quota read, whose error the inner catch only logs.
checkTwitterRateLimit(file, t, me, quota) ==
    IF isRateLimited(file, t)
    THEN [canPost |-> FALSE, cached |-> TRUE, file |-> file]
    ELSE IF ~IsOk(me)
    THEN IF me.code = 401
         THEN [canPost |-> FALSE, cached |-> FALSE, file |-> file]
         ELSE IF me.code = 429
         THEN [canPost |-> FALSE, cached |-> FALSE, file |-> cacheRateLimitError(me, file)]
         ELSE [canPost |-> TRUE, cached |-> FALSE, file |-> file]
    ELSE IF IsOk(quota) /\ quota.rateLimit.present /\ quota.rateLimit.remaining = 0
    THEN [canPost |-> FALSE, cached |-> FALSE, file |-> cacheRateLimitError(quota, file)]
    ELSE [canPost |-> TRUE, cached |-> FALSE, file |-> file]

\* a Twitter run that has fetched one eligible insight, with no record, an
\* active one or one that has run out, about to make its pre-check
InitProbe ==
    /\ config \in {c \in Configs : c.mode = "twitter"}
    /\ processed = <<>>
    /\ latest = NoMarker
    /\ rateLimit \in {NoRateLimit,
                      [limitType |-> "general", resetTimestamp |-> ResetSoon],
                      [limitType |-> "general", resetTimestamp |-> ResetPast]}
    /\ now = StartNow
    /\ pc = "ratecheck"
    /\ batch = <<[id |-> 1, publishedAt |-> StartNow - MsPerMinute]>>
    /\ eligible = batch
    /\ idx = 1
    /\ currentAccountIndex = 0
    /\ runs = 1
    /\ posted = [i \in Ids |-> 0]
    /\ evicted = FALSE
    /\ runLog = <<>>
    /\ haltCause = "none"
    /\ atStart = [processed |-> processed, latest |-> NoMarker, rateLimit |-> rateLimit]
    /\ storeLog = <<>>
    /\ lastAdd = [id |-> 0, present |-> FALSE]
    /\ env = GoodEnv(config.mode)
    /\ rawFile = NoFile
    /\ exitCode = -1
    /\ net = {"fetch"}
    /\ rlError = OkAnswer
    /\ disk = <<>>
    /\ inst = <<>>
    /\ seeded = {}
    /\ render = NoRender
    /\ failedIds = {}
    /\ probe \in {[me |-> m, quota |-> q, verdict |-> "none", cached |-> FALSE] :
                     m \in MeAnswers, q \in QuotaAnswers}

\* processNewPublishedInsights: const rateLimitCheck = await
\* checkTwitterRateLimit(); if (!rateLimitCheck.canPost) process.exit(1)
PreCheck ==
    /\ pc = "ratecheck"
    /\ probe.verdict = "none"
    /\ LET v == checkTwitterRateLimit(rateLimit, now, probe.me, probe.quota) IN
       /\ probe' = [probe EXCEPT !.verdict = IF v.canPost THEN "canPost" ELSE "refused",
                                 !.cached = v.cached]
       /\ rateLimit' = v.file
       /\ pc' = IF v.canPost THEN "dispatch" ELSE "halted"
       /\ exitCode' = IF v.canPost THEN exitCode ELSE 1
       /\ haltCause' = IF v.canPost THEN haltCause
                       ELSE IF v.cached THEN "cached"
                       ELSE IF probe.me.code = 429 THEN "probe429" ELSE "probe"
       /\ net' = IF v.cached THEN net ELSE net \cup {"probe"}
    /\ UNCHANGED <<atStart, config, env, rawFile, render, failedIds, rlError, disk, inst,
                   seeded, processed, latest, now, batch, eligible, idx,
                   currentAccountIndex, runs, posted, evicted, runLog, storeLog, lastAdd>>

NextProbe == PreCheck

SpecProbe == InitProbe /\ [][NextProbe]_vars

\* --------------------------------------------------------- the dispatch loop
InLoop == pc = "dispatch" /\ idx <= Len(eligible)
Cur == eligible[idx]

\* the processed check comes after the post
DispatchSkipProcessed_Posts ==
    /\ InLoop
    /\ isInsightProcessed(processed, Cur.id)
    /\ runLog' = Append(runLog, LogEntry(Cur.id, "skipProcessed", FALSE, 0, FALSE, 0, FALSE, FALSE))
    /\ idx' = idx + 1
    /\ posted' = Bump(posted, Cur.id)
    /\ net' = net \cup {"post"}
    /\ UNCHANGED <<atStart, config, env, rawFile, render, probe, failedIds, rlError, disk, inst, seeded, processed, latest, rateLimit, now, pc, exitCode, batch, eligible,
                   currentAccountIndex, runs, evicted, haltCause, storeLog, lastAdd>>

\* isInsightProcessed(insight.id): continue
DispatchSkipProcessed ==
    /\ InLoop
    /\ isInsightProcessed(processed, Cur.id)
    /\ runLog' = Append(runLog, LogEntry(Cur.id, "skipProcessed", FALSE, 0, FALSE, 0, FALSE, FALSE))
    /\ idx' = idx + 1
    /\ UNCHANGED <<atStart, config, env, rawFile, render, probe, failedIds, rlError, disk, inst, seeded, processed, latest, rateLimit, now, pc, exitCode, batch, eligible,
                   currentAccountIndex, runs, net, posted, evicted, haltCause, storeLog, lastAdd>>

\* the skip records the insight as processed
DispatchSkipTooOld_MarksProcessed ==
    /\ InLoop
    /\ ~isInsightProcessed(processed, Cur.id)
    /\ isInsightTooOld(Cur, latest)
    /\ processed' = addProcessedInsight(processed, Cur.id, NoMeta, config)
    /\ evicted' = (evicted \/ Evicts(processed, Cur.id, config))
    /\ storeLog' = Append(storeLog, Cur.id)
    /\ lastAdd' = [id |-> Cur.id, present |-> FALSE]
    /\ runLog' = Append(runLog, LogEntry(Cur.id, "skipOld", FALSE, 0, FALSE, 0, FALSE, FALSE))
    /\ idx' = idx + 1
    /\ UNCHANGED <<atStart, config, env, rawFile, render, probe, failedIds, rlError, disk, inst, seeded, latest, rateLimit, now, pc, exitCode, batch, eligible,
                   currentAccountIndex, runs, net, posted, haltCause>>

\* isInsightTooOld(insight): continue
DispatchSkipTooOld ==
    /\ InLoop
    /\ ~isInsightProcessed(processed, Cur.id)
    /\ isInsightTooOld(Cur, latest)
    /\ runLog' = Append(runLog, LogEntry(Cur.id, "skipOld", FALSE, 0, FALSE, 0, FALSE, FALSE))
    /\ idx' = idx + 1
    /\ UNCHANGED <<atStart, config, env, rawFile, render, probe, failedIds, rlError, disk, inst, seeded, processed, latest, rateLimit, now, pc, exitCode, batch, eligible,
                   currentAccountIndex, runs, net, posted, evicted, haltCause, storeLog, lastAdd>>

Sendable ==
    /\ InLoop
    /\ ~isInsightProcessed(processed, Cur.id)
    /\ ~isInsightTooOld(Cur, latest)

\* addProcessedInsight as the running process calls it
MarkProcessed(store, i, metadata) ==
    /\ processed' = addProcessedInsight(store, i, metadata, config)
    /\ evicted' = (evicted \/ Evicts(store, i, config))
    /\ storeLog' = IF isInsightProcessed(store, i) THEN storeLog
                   ELSE Append(storeLog, insightData(i, metadata, config.mode).id)
    /\ lastAdd' = [id |-> i, present |-> isInsightProcessed(store, i)]

\* the rest of one loop iteration once sendMessage has returned or thrown
\* on Telegram
TelegramIteration(photo, r, storeOk, markerOk) ==
    IF r.ok
    THEN \* addProcessedInsight, writeCache(latest), the one-second pause;
         \* an exception out of either write would land in the loop's catch
         LET ws == writeCache(processed,
                              addProcessedInsight(processed, Cur.id, NoMeta, config), storeOk)
             wm == writeCache(latest, [id |-> Cur.id, publishedAt |-> Cur.publishedAt],
                              markerOk)
         IN
         /\ IF storeOk THEN MarkProcessed(processed, Cur.id, NoMeta)
            ELSE UNCHANGED <<processed, evicted, storeLog, lastAdd>>
         /\ latest' = IF ws.threw THEN latest ELSE wm.file
         /\ posted' = Bump(posted, Cur.id)
         /\ runLog' = Append(runLog, LogEntry(Cur.id, "sent", r.r429, r.attempts, photo, r.error.status,
                                              ~ws.threw /\ ~wm.threw, r.after429))
         /\ idx' = idx + 1
         /\ UNCHANGED <<rateLimit, pc, exitCode, haltCause>>
    ELSE IF HaltsRun(r.error)
    THEN \* process.exit(1)
         /\ rateLimit' = CacheOnHalt(r.error, rateLimit)
         /\ pc' = "halted"
         /\ exitCode' = 1
         /\ haltCause' = "post"
         /\ runLog' = Append(runLog, LogEntry(Cur.id, "halt", r.r429, r.attempts, photo, r.error.status, FALSE, r.after429))
         /\ UNCHANGED <<processed, latest, posted, idx, evicted, storeLog, lastAdd>>
    ELSE \* logged, continue
         /\ runLog' = Append(runLog, LogEntry(Cur.id, "failed", r.r429, r.attempts, photo, r.error.status, FALSE, r.after429))
         /\ idx' = idx + 1
         /\ UNCHANGED <<processed, latest, rateLimit, posted, pc, exitCode, haltCause, evicted,
                        storeLog, lastAdd>>

DispatchTelegram(want) ==
    /\ Sendable
    /\ config.mode = "telegram"
    /\ \E photo \in BOOLEAN, first \in TelegramAnswers, second \in TelegramAnswers :
          LET r == TelegramSend(first, second) IN
          /\ want = (IF r.ok THEN "sent" ELSE IF HaltsRun(r.error) THEN "halt" ELSE "failed")
          /\ IsOk(first) => second = OkAnswer
          /\ TelegramIteration(photo, r, TRUE, TRUE)
    /\ net' = net \cup {"post"}
    /\ UNCHANGED <<atStart, config, env, rawFile, render, probe, failedIds, rlError, disk, inst, seeded, now, batch, eligible, currentAccountIndex, runs>>

DispatchTelegramSent == DispatchTelegram("sent")
DispatchTelegramFailed == DispatchTelegram("failed")
DispatchTelegramHalt == DispatchTelegram("halt")

\* one loop iteration on Twitter.  sendInsightToTwitter marks the insight
\* processed itself and returns the tweet URL, a string: platformResponse?.data
\* is undefined, the loop throws 'Tweet failed: Unknown error' and its catch
\* logs and continues.
TwitterIteration(r, storeOk) ==
    /\ currentAccountIndex' = r.acct
    /\ IF r.ok
       THEN /\ IF storeOk THEN MarkProcessed(processed, Cur.id, NoMeta)
               ELSE UNCHANGED <<processed, evicted, storeLog, lastAdd>>
            /\ rateLimit' = r.file
            /\ posted' = Bump(posted, Cur.id)
            /\ runLog' = Append(runLog, LogEntry(Cur.id, "sent", r.r429, r.attempts, FALSE, r.error.status, FALSE, r.after429))
            /\ idx' = idx + 1
            /\ UNCHANGED <<latest, pc, exitCode, haltCause>>
       ELSE IF HaltsRun(r.error)
       THEN /\ rateLimit' = CacheOnHalt(r.error, r.file)
            /\ pc' = "halted"
            /\ exitCode' = 1
            /\ haltCause' = "post"
            /\ runLog' = Append(runLog, LogEntry(Cur.id, "halt", r.r429, r.attempts, FALSE, r.error.status, FALSE, r.after429))
            /\ UNCHANGED <<processed, latest, posted, idx, evicted, storeLog, lastAdd>>
       ELSE /\ rateLimit' = r.file
            /\ runLog' = Append(runLog, LogEntry(Cur.id, "failed", r.r429, r.attempts, FALSE, r.error.status, FALSE, r.after429))
            /\ idx' = idx + 1
            /\ UNCHANGED <<processed, latest, posted, pc, exitCode, haltCause, evicted,
                           storeLog, lastAdd>>

DispatchTwitter(want) ==
    /\ Sendable
    /\ config.mode = "twitter"
    /\ \E answers \in [1..config.numAccounts -> TwitterAnswers] :
          LET r == TwitterSend(0, answers, currentAccountIndex, rateLimit, config, FALSE) IN
          /\ want = (IF r.ok THEN "sent" ELSE IF HaltsRun(r.error) THEN "halt" ELSE "failed")
          /\ \A k \in 1..config.numAccounts : k > r.attempts => answers[k] = OkAnswer
          /\ TwitterIteration(r, TRUE)
    /\ net' = net \cup {"post"}
    /\ UNCHANGED <<atStart, config, env, rawFile, render, probe, failedIds, rlError, disk, inst, seeded, now, batch, eligible, runs>>

DispatchTwitterSent == DispatchTwitter("sent")
DispatchTwitterFailed == DispatchTwitter("failed")
DispatchTwitterHalt == DispatchTwitter("halt")

\* an accepted Telegram post whose cache writes fail in fs.writeFileSync
\* (disk full, file not writable): the processed list, the marker or both
DispatchTelegramUnsaved ==
    /\ Sendable
    /\ config.mode = "telegram"
    /\ \E photo \in BOOLEAN, first \in TelegramAnswers, second \in TelegramAnswers,
          storeOk \in BOOLEAN, markerOk \in BOOLEAN :
          LET r == TelegramSend(first, second) IN
          /\ r.ok
          /\ ~(storeOk /\ markerOk)
          /\ IsOk(first) => second = OkAnswer
          /\ TelegramIteration(photo, r, storeOk, markerOk)
    /\ net' = net \cup {"post"}
    /\ UNCHANGED <<atStart, config, env, rawFile, render, probe, failedIds, rlError, disk, inst, seeded, now, batch, eligible, currentAccountIndex, runs>>

\* an accepted tweet whose addProcessedInsight fails to write
DispatchTwitterUnsaved ==
    /\ Sendable
    /\ config.mode = "twitter"
    /\ \E answers \in [1..config.numAccounts -> TwitterAnswers] :
          LET r == TwitterSend(0, answers, currentAccountIndex, rateLimit, config, FALSE) IN
          /\ r.ok
          /\ \A k \in 1..config.numAccounts : k > r.attempts => answers[k] = OkAnswer
          /\ TwitterIteration(r, FALSE)
    /\ net' = net \cup {"post"}
    /\ UNCHANGED <<atStart, config, env, rawFile, render, probe, failedIds, rlError, disk, inst, seeded, now, batch, eligible, runs>>

\* the loop is exhausted: main() logs success, exit 0
DispatchFinish ==
    /\ pc = "dispatch"
    /\ idx > Len(eligible)
    /\ pc' = "done"
    /\ exitCode' = 0
    /\ UNCHANGED <<atStart, config, env, rawFile, render, probe, failedIds, rlError, disk, inst, seeded, processed, latest, rateLimit, now, batch, eligible, idx,
                   currentAccountIndex, runs, net, posted, evicted, runLog, haltCause,
                   storeLog, lastAdd>>

\* ------------------------------------------------------------ the pre-seed
\* preseedProductionCache: the for loop over newInsights, each through
\* addProcessedInsight; st carries the file and what the calls did to it
RECURSIVE PreseedLoop(_, _, _)
\* the loop leaves after its first insight
PreseedLoop_FirstOnly(st, insights, cfg) ==
    IF insights = <<>> THEN st
    ELSE [store |-> addProcessedInsight(st.store, Head(insights).id, PreseedMeta, cfg),
          evicted |-> (st.evicted \/ Evicts(st.store, Head(insights).id, cfg)),
          log |-> Append(st.log, insightData(Head(insights).id, PreseedMeta, cfg.mode).id),
          last |-> [id |-> Head(insights).id, present |-> FALSE]]

PreseedLoop(st, insights, cfg) ==
    IF insights = <<>> THEN st
    ELSE LET i == Head(insights).id
             present == isInsightProcessed(st.store, i)
         IN  PreseedLoop(
                 [store |-> addProcessedInsight(st.store, i, PreseedMeta, cfg),
                  evicted |-> (st.evicted \/ Evicts(st.store, i, cfg)),
                  log |-> IF present THEN st.log
                          ELSE Append(st.log, insightData(i, PreseedMeta, cfg.mode).id),
                  last |-> [id |-> i, present |-> present]],
                 Tail(insights), cfg)

\* preseedProductionCache(limit, dryRun = false)
Preseed ==
    /\ pc \in Stopped
    /\ runs < MaxRuns
    /\ runs' = runs + 1
    /\ \E b \in SeqsUpTo(Catalogue, MaxBatch) :
          LET newInsights == SelectSeq(b, LAMBDA x : ~isInsightProcessed(processed, x.id))
              st == PreseedLoop([store |-> processed, evicted |-> evicted,
                                 log |-> storeLog, last |-> lastAdd], newInsights, config)
          IN  /\ batch' = b
              /\ processed' = st.store
              /\ evicted' = st.evicted
              /\ storeLog' = st.log
              /\ lastAdd' = st.last
              /\ seeded' = seeded \cup {newInsights[k].id : k \in 1..Len(newInsights)}
    /\ pc' = "preseeded"
    /\ failedIds' = FailedSoFar
    /\ exitCode' = 0
    /\ net' = {"fetch"}
    /\ eligible' = <<>>
    /\ idx' = 0
    /\ runLog' = <<>>
    /\ haltCause' = "none"
    /\ currentAccountIndex' = 0
    /\ atStart' = [processed |-> processed, latest |-> latest, rateLimit |-> rateLimit]
    /\ UNCHANGED <<config, env, rawFile, render, probe, rlError, disk, inst, latest, rateLimit, now, posted>>

\* preseedProductionCache(limit, dryRun = true)
PreseedDryRun ==
    /\ pc \in Stopped
    /\ runs < MaxRuns
    /\ runs' = runs + 1
    /\ \E b \in SeqsUpTo(Catalogue, MaxBatch) : batch' = b
    /\ pc' = "dryrun"
    /\ failedIds' = FailedSoFar
    /\ exitCode' = 0
    /\ net' = {"fetch"}
    /\ eligible' = <<>>
    /\ idx' = 0
    /\ runLog' = <<>>
    /\ haltCause' = "none"
    /\ currentAccountIndex' = 0
    /\ atStart' = [processed |-> processed, latest |-> latest, rateLimit |-> rateLimit]
    /\ UNCHANGED <<config, env, rawFile, render, probe, rlError, disk, inst, seeded, processed, latest, rateLimit, now, posted, evicted,
                   storeLog, lastAdd>>

Next ==
    \/ RunConfigError
    \/ RunFetchFail
    \/ RunFetchEmpty
    \/ RunFetch
    \/ RateCheckCached
    \/ RateCheckPass
    \/ RateCheckRefuse
    \/ DispatchSkipProcessed
    \/ DispatchSkipTooOld
    \/ DispatchTelegramSent
    \/ DispatchTelegramFailed
    \/ DispatchTelegramHalt
    \/ DispatchTwitterSent
    \/ DispatchTwitterFailed
    \/ DispatchTwitterHalt
    \/ DispatchFinish
    \/ Preseed
    \/ PreseedDryRun
    \/ Tick

Spec == Init /\ [][Next]_vars

\* the steps of a process that has fetched its batch; each awaits network
\* calls that return or fail, so a started process keeps taking them
RunStep ==
    \/ RateCheckCached
    \/ RateCheckPass
    \/ RateCheckRefuse
    \/ DispatchSkipProcessed
    \/ DispatchSkipTooOld
    \/ DispatchTelegramSent
    \/ DispatchTelegramFailed
    \/ DispatchTelegramHalt
    \/ DispatchTwitterSent
    \/ DispatchTwitterFailed
    \/ DispatchTwitterHalt
    \/ DispatchFinish

SpecLive == Init /\ [][Next]_vars /\ WF_vars(RunStep)


\* ---------------------------------------------- the cache store on its own
\* addProcessedInsight called with any id and any metadata, from an empty
\* file or one holding a bare-id entry of an earlier release.
StoreMetas == {[id |-> m, preseeded |-> ps] : m \in {0} \cup Ids, ps \in BOOLEAN}

InitStore ==
    /\ config \in Configs
    /\ processed \in {<<>>, <<LegacyEntry(1)>>}
    /\ storeLog = [k \in 1..Len(processed) |-> processed[k].id]
    /\ latest = NoMarker
    /\ rateLimit = NoRateLimit
    /\ now = StartNow
    /\ pc = "store"
    /\ batch = <<>>
    /\ eligible = <<>>
    /\ idx = 0
    /\ currentAccountIndex = 0
    /\ runs = 0
    /\ posted = [i \in Ids |-> 0]
    /\ evicted = FALSE
    /\ runLog = <<>>
    /\ haltCause = "none"
    /\ atStart = [processed |-> processed, latest |-> NoMarker, rateLimit |-> NoRateLimit]
    /\ lastAdd = [id |-> 0, present |-> FALSE]
    /\ env = GoodEnv(config.mode)
    /\ rawFile = NoFile
    /\ exitCode = -1
    /\ net = {}
    /\ rlError = OkAnswer
    /\ disk = <<>>
    /\ inst = <<>>
    /\ seeded = {}
    /\ render = NoRender
    /\ failedIds = {}
    /\ probe = NoProbe

StoreAdd ==
    /\ pc = "store"
    /\ \E i \in Ids, metadata \in StoreMetas :
          /\ isInsightProcessed(processed, i) \/ Len(storeLog) < MaxStoreOps
          /\ MarkProcessed(processed, i, metadata)
    /\ UNCHANGED <<atStart, config, env, rawFile, render, probe, failedIds, rlError, disk, inst, seeded, latest, rateLimit, now, pc, exitCode, batch, eligible, idx,
                   currentAccountIndex, runs, net, posted, runLog, haltCause>>

NextStore == StoreAdd

SpecStore == InitStore /\ [][NextStore]_vars

\* --------------------------------------------------- the filter on its own
\* processNewPublishedInsights up to the filtered list, over batches of
\* insights with any publishedAt: 11, 10 and 9 minutes old at StartNow, in
\* the future, null, absent, unparsable.
FilterPubs ==
    <<1 * MsPerMinute, 2 * MsPerMinute, 3 * MsPerMinute, 20 * MsPerMinute,
      NullPub, AbsentPub, GarbagePub>>

FilterItems == {[id |-> k, publishedAt |-> FilterPubs[k]] : k \in 1..Len(FilterPubs)}

InitFilter ==
    /\ config \in {c \in Configs : c.mode = "telegram" /\ c.maxProcessedIds = 1}
    /\ batch \in SeqsUpTo(FilterItems, MaxFilterBatch)
    /\ now \in {StartNow, StartNow + MsPerMinute}
    /\ pc = "fetched"
    /\ eligible = <<>>
    /\ processed = <<>>
    /\ storeLog = <<>>
    /\ latest = NoMarker
    /\ rateLimit = NoRateLimit
    /\ idx = 0
    /\ currentAccountIndex = 0
    /\ runs = 0
    /\ posted = [i \in Ids |-> 0]
    /\ evicted = FALSE
    /\ runLog = <<>>
    /\ haltCause = "none"
    /\ atStart = [processed |-> processed, latest |-> NoMarker, rateLimit |-> NoRateLimit]
    /\ lastAdd = [id |-> 0, present |-> FALSE]
    /\ env = GoodEnv(config.mode)
    /\ rawFile = NoFile
    /\ exitCode = -1
    /\ net = {}
    /\ rlError = OkAnswer
    /\ disk = <<>>
    /\ inst = <<>>
    /\ seeded = {}
    /\ render = NoRender
    /\ failedIds = {}
    /\ probe = NoProbe

Filter ==
    /\ pc = "fetched"
    /\ eligible' = dispatchOrder(batch, now)
    /\ pc' = "filtered"
    /\ UNCHANGED <<exitCode, atStart, config, env, rawFile, render, probe, failedIds, rlError, disk, inst, seeded, processed, latest, rateLimit, now, batch, idx,
                   currentAccountIndex, runs, net, posted, evicted, runLog, haltCause,
                   storeLog, lastAdd>>

NextFilter == Filter

SpecFilter == InitFilter /\ [][NextFilter]_vars

\* ------------------------------------- a rate-limit record left on disk
\* rate_limit.cache.json is named after the test-mode flag only, so an
\* instance of either platform finds the record a Twitter instance of the
\* same directory wrote.
TwitterRecords ==
    {cacheRateLimitError(a, NoRateLimit) : a \in TwitterAnswers} \ {NoRateLimit}

InitGuard ==
    /\ config \in Configs
    /\ rateLimit \in {NoRateLimit} \cup TwitterRecords
    /\ processed = <<>>
    /\ storeLog = <<>>
    /\ latest = NoMarker
    /\ now = StartNow
    /\ pc = "idle"
    /\ batch = <<>>
    /\ eligible = <<>>
    /\ idx = 0
    /\ currentAccountIndex = 0
    /\ runs = 0
    /\ posted = [i \in Ids |-> 0]
    /\ evicted = FALSE
    /\ runLog = <<>>
    /\ haltCause = "none"
    /\ atStart = [processed |-> processed, latest |-> NoMarker, rateLimit |-> rateLimit]
    /\ lastAdd = [id |-> 0, present |-> FALSE]
    /\ env = GoodEnv(config.mode)
    /\ rawFile = NoFile
    /\ exitCode = -1
    /\ net = {}
    /\ rlError = OkAnswer
    /\ disk = <<>>
    /\ inst = <<>>
    /\ seeded = {}
    /\ render = NoRender
    /\ failedIds = {}
    /\ probe = NoProbe

NextGuard ==
    \/ RunFetch
    \/ RateCheckCached
    \/ RateCheckPass
    \/ RateCheckRefuse
    \/ DispatchSkipProcessed
    \/ DispatchSkipTooOld
    \/ DispatchTelegramSent
    \/ DispatchTelegramFailed
    \/ DispatchTelegramHalt
    \/ DispatchTwitterSent
    \/ DispatchTwitterFailed
    \/ DispatchTwitterHalt
    \/ DispatchFinish
    \/ Tick

SpecGuard == InitGuard /\ [][NextGuard]_vars

\* ------------------------------------------------- start-up on its own
\* main() up to the fetch, under every environment
InitConfig ==
    /\ env \in Envs
    /\ config \in {c \in Configs :
                      c.mode = IF platformMode(env) = "twitter" THEN "twitter" ELSE "telegram"}
    /\ processed = <<>>
    /\ storeLog = <<>>
    /\ latest = NoMarker
    /\ rateLimit = NoRateLimit
    /\ now = StartNow
    /\ pc = "idle"
    /\ batch = <<>>
    /\ eligible = <<>>
    /\ idx = 0
    /\ currentAccountIndex = 0
    /\ runs = 0
    /\ posted = [i \in Ids |-> 0]
    /\ evicted = FALSE
    /\ runLog = <<>>
    /\ haltCause = "none"
    /\ atStart = [processed |-> processed, latest |-> NoMarker, rateLimit |-> NoRateLimit]
    /\ lastAdd = [id |-> 0, present |-> FALSE]
    /\ rawFile = NoFile
    /\ exitCode = -1
    /\ net = {}
    /\ rlError = OkAnswer
    /\ disk = <<>>
    /\ inst = <<>>
    /\ seeded = {}
    /\ render = NoRender
    /\ failedIds = {}
    /\ probe = NoProbe

NextConfig ==
    \/ RunConfigError
    \/ RunFetchFail
    \/ RunFetchEmpty
    \/ RunFetch

SpecConfig == InitConfig /\ [][NextConfig]_vars

\* ------------------------------------------------ the first read of the file
\* A process finds processed_insights.cache.json in any condition, reads it
\* through readProcessedIds and goes on calling addProcessedInsight.
FileTexts == {"garbage", "null", "number", "string", "array", "object"}
FileKeys == {"absent", "null", "string", "object", "array"}
FileEntries == {LegacyEntry(1), insightData(2, NoMeta, "telegram")}

Files ==
    {FileRec(ex, tx, ky, its) :
        ex \in BOOLEAN, tx \in FileTexts, ky \in FileKeys,
        its \in {<<>>} \cup SeqsUpTo(FileEntries, 1)}

InitLoad ==
    /\ rawFile \in Files
    /\ config \in {c \in Configs : c.mode = "telegram" /\ c.maxProcessedIds = 1}
    /\ processed = <<>>
    /\ storeLog = <<>>
    /\ latest = NoMarker
    /\ rateLimit = NoRateLimit
    /\ now = StartNow
    /\ pc = "load"
    /\ batch = <<>>
    /\ eligible = <<>>
    /\ idx = 0
    /\ currentAccountIndex = 0
    /\ runs = 0
    /\ posted = [i \in Ids |-> 0]
    /\ evicted = FALSE
    /\ runLog = <<>>
    /\ haltCause = "none"
    /\ atStart = [processed |-> <<>>, latest |-> NoMarker, rateLimit |-> NoRateLimit]
    /\ lastAdd = [id |-> 0, present |-> FALSE]
    /\ env = GoodEnv(config.mode)
    /\ exitCode = -1
    /\ net = {}
    /\ rlError = OkAnswer
    /\ disk = <<>>
    /\ inst = <<>>
    /\ seeded = {}
    /\ render = NoRender
    /\ failedIds = {}
    /\ probe = NoProbe

\* the first readProcessedIds of the process; an exception that escapes it
\* ends the process
Load ==
    /\ pc = "load"
    /\ LET r == readProcessedIds(rawFile) IN
          IF r.threw
          THEN /\ pc' = "crashed"
               /\ exitCode' = 1
               /\ UNCHANGED <<processed, storeLog, atStart>>
          ELSE /\ pc' = "store"
               /\ exitCode' = exitCode
               /\ processed' = r.ids
               /\ storeLog' = StoreIds(r.ids)
               /\ atStart' = [atStart EXCEPT !.processed = r.ids]
    /\ UNCHANGED <<config, env, rawFile, render, probe, failedIds, rlError, disk, inst, seeded, latest, rateLimit, now, batch, eligible, idx,
                   currentAccountIndex, runs, net, posted, evicted, runLog, haltCause,
                   lastAdd>>

NextLoad ==
    \/ Load
    \/ StoreAdd

SpecLoad == InitLoad /\ [][NextLoad]_vars

\* ------------------------------------------------------------ the renderer
\* The fields of an insight that getImageForInsight reads.  A value is
\* "absent", "url" (isValidUrl accepts it) or "text" (any other string, such
\* as a colour name).
RenderInsights ==
    [backgroundType : {"image", "color", "absent", "gradient"},
     backgroundValue : {"absent", "url", "text"},
     visualizationType : {"graphics", "chart"},
     visualizationValue : {"absent", "url", "text"}]

isValidUrl(v) == v = "url"

\* getImageForInsight: "buffer" from the canvas, "url", or "null"; canvasOk
\* tells whether loading and drawing the images succeeded (a throw lands in
\* the catch, which returns null)
getImageForInsight(insight, canvasOk) ==
    IF insight.backgroundType = "image"
    THEN IF (insight.visualizationType = "graphics" /\ isValidUrl(insight.visualizationValue))
            \/ isValidUrl(insight.backgroundValue)
         THEN IF canvasOk THEN "buffer" ELSE "null"
         ELSE "null"
    ELSE IF insight.backgroundType = "color"
    THEN IF ~isValidUrl(insight.visualizationValue) THEN "null"
         ELSE IF canvasOk THEN "buffer" ELSE "null"
    ELSE IF isValidUrl(insight.backgroundValue) THEN "url" ELSE "null"

\* sendTelegramMessage: sendPhotoMessage for a string or a Buffer, else
\* sendTextMessage.  sendTwitterMessage: the image goes along only when
\* TWITTER_POST_IMAGES is set and the data is a Buffer.
firstSend(mode, image, postImages) ==
    IF mode = "telegram" THEN (IF image # "null" THEN "photo" ELSE "text")
    ELSE IF postImages /\ image = "buffer" THEN "photo" ELSE "text"

InitRender ==
    /\ render \in {[insight |-> i, image |-> "none", sent |-> "none"] : i \in RenderInsights}
    /\ config \in {c \in Configs : c.maxProcessedIds = 1 /\ c.numAccounts = 1}
    /\ processed = <<>>
    /\ storeLog = <<>>
    /\ latest = NoMarker
    /\ rateLimit = NoRateLimit
    /\ now = StartNow
    /\ pc = "dispatch"
    /\ batch = <<>>
    /\ eligible = <<>>
    /\ idx = 0
    /\ currentAccountIndex = 0
    /\ runs = 0
    /\ posted = [i \in Ids |-> 0]
    /\ evicted = FALSE
    /\ runLog = <<>>
    /\ haltCause = "none"
    /\ atStart = [processed |-> <<>>, latest |-> NoMarker, rateLimit |-> NoRateLimit]
    /\ lastAdd = [id |-> 0, present |-> FALSE]
    /\ env = GoodEnv(config.mode)
    /\ rawFile = NoFile
    /\ exitCode = -1
    /\ net = {}
    /\ rlError = OkAnswer
    /\ disk = <<>>
    /\ inst = <<>>
    /\ seeded = {}
    /\ failedIds = {}
    /\ probe = NoProbe

\* sendMessage(insight) up to the first send
Render ==
    /\ render.image = "none"
    /\ \E canvasOk \in BOOLEAN, postImages \in BOOLEAN :
          LET image == getImageForInsight(render.insight, canvasOk) IN
          render' = [render EXCEPT !.image = image,
                                   !.sent = firstSend(config.mode, image, postImages)]
    /\ UNCHANGED <<config, env, rawFile, rlError, disk, inst, seeded, processed, latest,
                   rateLimit, now, pc, exitCode, batch, eligible, idx, currentAccountIndex,
                   runs, net, posted, runLog, haltCause, atStart, storeLog, lastAdd, evicted, failedIds, probe>>

NextRender == Render

SpecRender == InitRender /\ [][NextRender]_vars

\* ----------------------------------- two platforms in one installation
\* The Telegram instance and the Twitter instance of the parallel deployment,
\* started from the same directory and so on the same three cache files,
\* taking turns: OtherPlatform is the configuration of the other instance.
OtherPlatform(cfg) ==
    [cfg EXCEPT !.mode = IF cfg.mode = "telegram" THEN "twitter" ELSE "telegram"]

InitParallel ==
    /\ Init
    /\ config.maxProcessedIds = MaxProcessedIdsCap
    /\ config.numAccounts = 1
    /\ env = GoodEnv(config.mode)

\* the next process to start is the other platform's
SwitchInstance ==
    /\ pc \in Stopped
    /\ runs >= 1
    /\ config' = OtherPlatform(config)
    /\ env' = GoodEnv(config'.mode)
    /\ pc' = "idle"
    /\ runLog' = <<>>
    /\ failedIds' = FailedSoFar
    /\ UNCHANGED <<atStart, rawFile, render, probe, rlError, disk, inst, seeded, processed, latest, rateLimit,
                   now, exitCode, batch, eligible, idx, currentAccountIndex, runs, net, posted,
                   evicted, haltCause, storeLog, lastAdd>>

NextParallel ==
    \/ NextGuard
    \/ SwitchInstance

SpecParallel == InitParallel /\ [][NextParallel]_vars

\* ------------------------------------ the pipeline on a disk refusing writes
\* normal runs whose cache writes may fail, with the largest store size so
\* that a missing record is never the work of the slice
InitUnsaved ==
    /\ Init
    /\ config.maxProcessedIds = MaxProcessedIdsCap

NextUnsaved ==
    \/ NextGuard
    \/ DispatchTelegramUnsaved
    \/ DispatchTwitterUnsaved

SpecUnsaved == InitUnsaved /\ [][NextUnsaved]_vars

\* ------------------------------------------- the dispatch loop, step by step
\* The for loop of processNewPublishedInsights on Telegram with each await and
\* each file access a step of its own, for one or more instances (processes)
\* working on the same cache files.  An instance k is inst[k]: where it is
\* (pc), its eligible list and index, the requests it has sent and not yet
\* seen answered (flight), the list addProcessedInsight read (local), what
\* became of each item (out) and the ids whose cache updates it wrote (saved).
NewInst(el) ==
    [pc |-> "check", idx |-> 1, eligible |-> el, flight |-> {}, local |-> <<>>,
     out |-> <<>>, saved |-> {}]

LoopLists ==
    {el \in SeqsUpTo(Catalogue, MaxBatch) :
        \A i, j \in 1..Len(el) : i # j => el[i].id # el[j].id}

LoopCur(k) == inst[k].eligible[inst[k].idx]

LoopFrame ==
    UNCHANGED <<config, env, rawFile, render, probe, failedIds, rlError, disk, seeded, rateLimit, now, pc, exitCode,
                batch, eligible, idx, currentAccountIndex, runs, net, runLog, haltCause,
                atStart, storeLog, lastAdd, evicted>>

InitLoop ==
    /\ config \in {c \in Configs : c.mode = "telegram" /\ c.maxProcessedIds = MaxProcessedIdsCap}
    /\ processed = <<>>
    /\ storeLog = <<>>
    /\ latest = NoMarker
    /\ rateLimit = NoRateLimit
    /\ now = StartNow
    /\ pc = "loop"
    /\ batch = <<>>
    /\ eligible = <<>>
    /\ idx = 0
    /\ currentAccountIndex = 0
    /\ runs = 0
    /\ posted = [i \in Ids |-> 0]
    /\ evicted = FALSE
    /\ runLog = <<>>
    /\ haltCause = "none"
    /\ atStart = [processed |-> <<>>, latest |-> NoMarker, rateLimit |-> NoRateLimit]
    /\ lastAdd = [id |-> 0, present |-> FALSE]
    /\ env = GoodEnv(config.mode)
    /\ rawFile = NoFile
    /\ exitCode = -1
    /\ net = {}
    /\ rlError = OkAnswer
    /\ disk = <<>>
    /\ seeded = {}
    /\ render = NoRender
    /\ failedIds = {}
    /\ probe = NoProbe

\* for (const insight of eligibleInsights): the list is exhausted
LFinish(k) ==
    /\ inst[k].pc = "check"
    /\ inst[k].idx > Len(inst[k].eligible)
    /\ inst' = [inst EXCEPT ![k].pc = "done"]
    /\ UNCHANGED <<processed, latest, posted>>
    /\ LoopFrame

\* the check waits until no other instance is between its check and the end
\* of its iteration
LCheck_Locked(k) ==
    /\ inst[k].pc = "check"
    /\ inst[k].idx <= Len(inst[k].eligible)
    /\ \A j \in DOMAIN inst : j # k => inst[j].pc \in {"check", "done", "halted"}
    /\ inst' = IF isInsightProcessed(processed, LoopCur(k).id)
                  \/ isInsightTooOld(LoopCur(k), latest)
               THEN [inst EXCEPT ![k].idx = @ + 1, ![k].out = Append(@, "skipped")]
               ELSE [inst EXCEPT ![k].pc = "render"]
    /\ UNCHANGED <<processed, latest, posted>>
    /\ LoopFrame

\* isInsightProcessed(insight.id) and isInsightTooOld(insight): continue, or
\* go on to sendMessage, which starts with the image
LCheck(k) ==
    /\ inst[k].pc = "check"
    /\ inst[k].idx <= Len(inst[k].eligible)
    /\ inst' = IF isInsightProcessed(processed, LoopCur(k).id)
                  \/ isInsightTooOld(LoopCur(k), latest)
               THEN [inst EXCEPT ![k].idx = @ + 1, ![k].out = Append(@, "skipped")]
               ELSE [inst EXCEPT ![k].pc = "render"]
    /\ UNCHANGED <<processed, latest, posted>>
    /\ LoopFrame

\* await getImageForInsight(insight) has returned
LRender(k) ==
    /\ inst[k].pc = "render"
    /\ inst' = [inst EXCEPT ![k].pc = "send"]
    /\ UNCHANGED <<processed, latest, posted>>
    /\ LoopFrame

\* the request goes out and the loop moves on without waiting for the answer
LPostStart_NoAwait(k) ==
    /\ inst[k].pc = "send"
    /\ inst' = [inst EXCEPT ![k].flight = @ \cup {LoopCur(k).id},
                            ![k].pc = "check",
                            ![k].idx = @ + 1,
                            ![k].out = Append(@, "started")]
    /\ UNCHANGED <<processed, latest, posted>>
    /\ LoopFrame

\* await fetch(url, ...): the request goes out, the loop is suspended
LPostStart(k) ==
    /\ inst[k].pc = "send"
    /\ inst' = [inst EXCEPT ![k].flight = @ \cup {LoopCur(k).id}, ![k].pc = "await"]
    /\ UNCHANGED <<processed, latest, posted>>
    /\ LoopFrame

\* the answer arrives: accepted, refused with 429 (process.exit(1)), or
\* another failure (logged, continue)
LPostDone(k) ==
    /\ inst[k].pc = "await"
    /\ \E a \in TelegramAnswers :
          /\ a.status # 400
          /\ inst' = IF IsOk(a)
                     THEN [inst EXCEPT ![k].flight = @ \ {LoopCur(k).id}, ![k].pc = "add"]
                     ELSE IF HaltsRun(a)
                     THEN [inst EXCEPT ![k].flight = @ \ {LoopCur(k).id},
                                       ![k].pc = "halted",
                                       ![k].out = Append(@, "halt")]
                     ELSE [inst EXCEPT ![k].flight = @ \ {LoopCur(k).id},
                                       ![k].pc = "check",
                                       ![k].idx = @ + 1,
                                       ![k].out = Append(@, "failed")]
          /\ posted' = IF IsOk(a) THEN Bump(posted, LoopCur(k).id) ELSE posted
    /\ UNCHANGED <<processed, latest>>
    /\ LoopFrame

\* addProcessedInsight: const processedInsights = readProcessedIds()
LAddRead(k) ==
    /\ inst[k].pc = "add"
    /\ inst' = [inst EXCEPT ![k].local = processed, ![k].pc = "write"]
    /\ UNCHANGED <<processed, latest, posted>>
    /\ LoopFrame

\* addProcessedInsight: push and writeProcessedIds, unless the id was found
LAddWrite(k) ==
    /\ inst[k].pc = "write"
    /\ processed' = IF isInsightProcessed(inst[k].local, LoopCur(k).id) THEN processed
                    ELSE addProcessedInsight(inst[k].local, LoopCur(k).id, NoMeta, config)
    /\ inst' = [inst EXCEPT ![k].pc = "marker"]
    /\ UNCHANGED <<latest, posted>>
    /\ LoopFrame

\* writeCache({id, publishedAt, sentAt}, config.cache.filename)
LMarker(k) ==
    /\ inst[k].pc = "marker"
    /\ latest' = [id |-> LoopCur(k).id, publishedAt |-> LoopCur(k).publishedAt]
    /\ inst' = [inst EXCEPT ![k].pc = "pause",
                            ![k].saved = @ \cup {LoopCur(k).id},
                            ![k].out = Append(@, "sent")]
    /\ UNCHANGED <<processed, posted>>
    /\ LoopFrame

\* await new Promise(resolve => setTimeout(resolve, 1000)) is over
LPause(k) ==
    /\ inst[k].pc = "pause"
    /\ inst' = [inst EXCEPT ![k].pc = "check", ![k].idx = @ + 1]
    /\ UNCHANGED <<processed, latest, posted>>
    /\ LoopFrame

\* any step of instance k
LStep(k) ==
    \/ LFinish(k)
    \/ LCheck(k)
    \/ LRender(k)
    \/ LPostStart(k)
    \/ LPostDone(k)
    \/ LAddRead(k)
    \/ LAddWrite(k)
    \/ LMarker(k)
    \/ LPause(k)

LoopFinish == \E k \in DOMAIN inst : LFinish(k)
LoopCheck == \E k \in DOMAIN inst : LCheck(k)
LoopRender == \E k \in DOMAIN inst : LRender(k)
LoopPostStart == \E k \in DOMAIN inst : LPostStart(k)
LoopPostDone == \E k \in DOMAIN inst : LPostDone(k)
LoopAddRead == \E k \in DOMAIN inst : LAddRead(k)
LoopAddWrite == \E k \in DOMAIN inst : LAddWrite(k)
LoopMarker == \E k \in DOMAIN inst : LMarker(k)
LoopPause == \E k \in DOMAIN inst : LPause(k)

NextLoop ==
    \/ LoopFinish
    \/ LoopCheck
    \/ LoopRender
    \/ LoopPostStart
    \/ LoopPostDone
    \/ LoopAddRead
    \/ LoopAddWrite
    \/ LoopMarker
    \/ LoopPause

\* one instance
InitSeq ==
    /\ InitLoop
    /\ \E el \in LoopLists : inst = <<NewInst(el)>>

SpecSeq == InitSeq /\ [][NextLoop]_vars

\* two instances started together on the same files, each with the list it
\* fetched
InitRace ==
    /\ InitLoop
    /\ \E a \in LoopLists, b \in LoopLists : inst = <<NewInst(a), NewInst(b)>>

SpecRace == InitRace /\ [][NextLoop]_vars

\* ------------------------------------------------------ runs in test mode
\* TEST_MODE=true with every combination of set and unset variables; the
\* runs go as far as posting
InitTestMode ==
    /\ InitConfig
    /\ env.testMode
    /\ config.maxProcessedIds = MaxProcessedIdsCap
    /\ config.numAccounts = 1

NextTestMode ==
    \/ RunConfigError
    \/ RunFetch
    \/ RateCheckPass
    \/ DispatchSkipProcessed
    \/ DispatchTelegramSent
    \/ DispatchTwitterSent
    \/ DispatchFinish

SpecTestMode == InitTestMode /\ [][NextTestMode]_vars

\* --------------------------------------- cache files of the two environments
\* Processes of either environment, one after the other in one directory,
\* doing cache operations in any order.  disk maps a file name to its data
\* and to the environments whose processes have read and written it.
ProductionFiles ==
    {"latest_insight.cache.json", "processed_insights.cache.json", "rate_limit.cache.json"}
TestFiles ==
    {"test_latest_insight.cache.json", "test_processed_insights.cache.json",
     "test_rate_limit.cache.json"}
FileNames == ProductionFiles \cup TestFiles

EmptyData(f) ==
    IF f \in {"latest_insight.cache.json", "test_latest_insight.cache.json"} THEN NoMarker
    ELSE IF f \in {"rate_limit.cache.json", "test_rate_limit.cache.json"} THEN NoRateLimit
    ELSE <<>>

EnvName(e) == IF isTestMode(e) THEN "test" ELSE "production"

\* fs.readFileSync / fs.writeFileSync on file f by a process of environment e
ReadFile(d, f, e) == [d EXCEPT ![f].readers = @ \cup {EnvName(e)}]
WriteFile(d, f, e, data) ==
    [d EXCEPT ![f].data = data, ![f].writers = @ \cup {EnvName(e)}]

InitEnv ==
    /\ disk = [f \in FileNames |-> [data |-> EmptyData(f), readers |-> {}, writers |-> {}]]
    /\ config \in {c \in Configs : c.maxProcessedIds = 1 /\ c.numAccounts = 1}
    /\ env = EnvRec(config.mode, FALSE, TRUE, TRUE, TRUE, CredFields, CredFields)
    /\ processed = <<>>
    /\ storeLog = <<>>
    /\ latest = NoMarker
    /\ rateLimit = NoRateLimit
    /\ now = StartNow
    /\ pc = "idle"
    /\ batch = <<>>
    /\ eligible = <<>>
    /\ idx = 0
    /\ currentAccountIndex = 0
    /\ runs = 0
    /\ posted = [i \in Ids |-> 0]
    /\ evicted = FALSE
    /\ runLog = <<>>
    /\ haltCause = "none"
    /\ atStart = [processed |-> <<>>, latest |-> NoMarker, rateLimit |-> NoRateLimit]
    /\ lastAdd = [id |-> 0, present |-> FALSE]
    /\ rawFile = NoFile
    /\ exitCode = -1
    /\ net = {}
    /\ rlError = OkAnswer
    /\ inst = <<>>
    /\ seeded = {}
    /\ render = NoRender
    /\ failedIds = {}
    /\ probe = NoProbe

EnvFrame ==
    UNCHANGED <<config, rawFile, render, probe, failedIds, rlError, inst, seeded, processed, latest, rateLimit, now,
                exitCode, batch, eligible, currentAccountIndex, net, posted, runLog,
                haltCause, atStart, storeLog, lastAdd, evicted>>

\* a process starts: config.js reads TEST_MODE once, at import
EnvStart ==
    /\ pc = "idle"
    /\ runs < MaxRuns
    /\ runs' = runs + 1
    /\ pc' = "running"
    /\ idx' = 0
    /\ \E tm \in BOOLEAN :
          env' = EnvRec(config.mode, tm, TRUE, TRUE, TRUE, CredFields, CredFields)
    /\ disk' = disk
    /\ EnvFrame

EnvOp == pc = "running" /\ idx < MaxEnvOps /\ idx' = idx + 1 /\ UNCHANGED <<pc, env, runs>>

\* isInsightProcessed(insightId): readProcessedIds
EnvIsProcessed ==
    /\ EnvOp
    /\ disk' = ReadFile(disk, processedIdsFilename(env), env)
    /\ EnvFrame

\* addProcessedInsight(insightId): readProcessedIds, then writeProcessedIds
\* unless the id is there
EnvAddProcessed ==
    /\ EnvOp
    /\ \E i \in {1, 2} :
          LET f == processedIdsFilename(env)
              store == disk[f].data
          IN  disk' = IF isInsightProcessed(store, i) THEN ReadFile(disk, f, env)
                      ELSE WriteFile(ReadFile(disk, f, env), f, env,
                                     addProcessedInsight(store, i, NoMeta, config))
    /\ EnvFrame

\* isInsightTooOld: readCache(config.cache.filename)
EnvReadMarker ==
    /\ EnvOp
    /\ disk' = ReadFile(disk, cacheFilename(env), env)
    /\ EnvFrame

\* writeCache({id, publishedAt, sentAt}, config.cache.filename)
EnvWriteMarker ==
    /\ EnvOp
    /\ \E i \in {1, 2} : disk' = WriteFile(disk, cacheFilename(env), env, Item(i))
    /\ EnvFrame

\* readRateLimitCache()
EnvReadRateLimit ==
    /\ EnvOp
    /\ disk' = ReadFile(disk, getRateLimitCacheFilename(env), env)
    /\ EnvFrame

\* cacheRateLimitError(error) reaching writeRateLimitCache
EnvCacheRateLimit ==
    /\ EnvOp
    /\ \E a \in {x \in TwitterAnswers : PickTier(x).resetTimestamp # 0} :
          disk' = WriteFile(disk, getRateLimitCacheFilename(env), env, PickTier(a))
    /\ EnvFrame

\* the process ends
EnvExit ==
    /\ pc = "running"
    /\ pc' = "idle"
    /\ disk' = disk
    /\ UNCHANGED <<env, runs, idx>>
    /\ EnvFrame

NextEnv ==
    \/ EnvStart
    \/ EnvIsProcessed
    \/ EnvAddProcessed
    \/ EnvReadMarker
    \/ EnvWriteMarker
    \/ EnvReadRateLimit
    \/ EnvCacheRateLimit
    \/ EnvExit

SpecEnv == InitEnv /\ [][NextEnv]_vars

\* ------------------------------------------- cacheRateLimitError on its own
\* rate-limit errors with every combination of tiers: userDay and day absent,
\* exhausted or not, the general counters exhausted or not, each with either
\* reset instant; and the error without a rateLimit object
TierChoices == {NoTier} \cup {Tier(rem, rst) : rem \in {0, 3}, rst \in {ResetSoon, ResetLate}}

TierErrors ==
    {Answer(429, 429, TRUE, RateLimitInfo(u, d, rem, rst)) :
        u \in TierChoices, d \in TierChoices, rem \in {0, 3}, rst \in {ResetSoon, ResetLate}}
    \cup {Answer(429, 429, TRUE, NoRateLimitInfo)}

InitTier ==
    /\ rlError \in TierErrors
    /\ rateLimit = NoRateLimit
    /\ config \in {c \in Configs : c.mode = "twitter" /\ c.maxProcessedIds = 1 /\ c.numAccounts = 1}
    /\ processed = <<>>
    /\ storeLog = <<>>
    /\ latest = NoMarker
    /\ now = StartNow
    /\ pc = "error"
    /\ batch = <<>>
    /\ eligible = <<>>
    /\ idx = 0
    /\ currentAccountIndex = 0
    /\ runs = 0
    /\ posted = [i \in Ids |-> 0]
    /\ evicted = FALSE
    /\ runLog = <<>>
    /\ haltCause = "none"
    /\ atStart = [processed |-> <<>>, latest |-> NoMarker, rateLimit |-> NoRateLimit]
    /\ lastAdd = [id |-> 0, present |-> FALSE]
    /\ env = GoodEnv(config.mode)
    /\ rawFile = NoFile
    /\ exitCode = -1
    /\ net = {}
    /\ disk = <<>>
    /\ inst = <<>>
    /\ seeded = {}
    /\ render = NoRender
    /\ failedIds = {}
    /\ probe = NoProbe

\* cacheRateLimitError(error)
CacheError ==
    /\ pc = "error"
    /\ pc' = "cached"
    /\ rateLimit' = cacheRateLimitError(rlError, rateLimit)
    /\ atStart' = [atStart EXCEPT !.rateLimit = rateLimit]
    /\ UNCHANGED <<config, env, rawFile, render, probe, failedIds, rlError, disk, inst, seeded, processed, latest, now,
                   exitCode, batch, eligible, idx, currentAccountIndex, runs, net, posted,
                   runLog, haltCause, storeLog, lastAdd, evicted>>

\* the next rate-limit error arrives
NextError ==
    /\ pc = "cached"
    /\ pc' = "error"
    /\ rlError' \in TierErrors
    /\ UNCHANGED <<config, env, rawFile, render, probe, failedIds, rateLimit, disk, inst, seeded, processed, latest, now,
                   exitCode, batch, eligible, idx, currentAccountIndex, runs, net, posted,
                   runLog, haltCause, atStart, storeLog, lastAdd, evicted>>

NextTier ==
    \/ CacheError
    \/ NextError

SpecTier == InitTier /\ [][NextTier]_vars

\* ------------------------------------------- a process killed while saving
\* addProcessedInsight against the file itself: read, append, slice, write.
\* Here processed is the list handed to writeCache, rawFile the durable file.
CrashStores == {<<>>, <<LegacyEntry(1)>>, <<insightData(2, NoMeta, "telegram")>>}

InitCrash ==
    /\ config \in {c \in Configs : c.mode = "telegram"}
    /\ processed \in CrashStores
    /\ rawFile = Serialized(processed)
    /\ storeLog = StoreIds(processed)
    /\ latest = NoMarker
    /\ rateLimit = NoRateLimit
    /\ now = StartNow
    /\ pc = "store"
    /\ batch = <<>>
    /\ eligible = <<>>
    /\ idx = 0
    /\ currentAccountIndex = 0
    /\ runs = 0
    /\ posted = [i \in Ids |-> 0]
    /\ evicted = FALSE
    /\ runLog = <<>>
    /\ haltCause = "none"
    /\ atStart = [processed |-> processed, latest |-> NoMarker, rateLimit |-> NoRateLimit]
    /\ lastAdd = [id |-> 0, present |-> FALSE]
    /\ env = GoodEnv(config.mode)
    /\ exitCode = -1
    /\ net = {}
    /\ rlError = OkAnswer
    /\ disk = <<>>
    /\ inst = <<>>
    /\ seeded = {}
    /\ render = NoRender
    /\ failedIds = {}
    /\ probe = NoProbe

\* addProcessedInsight of an id not yet in the file, run to the end
Save ==
    /\ pc = "store"
    /\ Len(storeLog) < MaxStoreOps
    /\ \E i \in Ids :
          LET store == readProcessedIds(rawFile).ids IN
          /\ ~isInsightProcessed(store, i)
          /\ MarkProcessed(store, i, NoMeta)
          /\ rawFile' = writeCache(rawFile, Serialized(addProcessedInsight(store, i, NoMeta, config)), TRUE).file
          /\ atStart' = [atStart EXCEPT !.processed = store]
    /\ UNCHANGED <<config, env, rlError, render, probe, failedIds, disk, inst, seeded, latest, rateLimit, now, pc, exitCode,
                   batch, eligible, idx, currentAccountIndex, runs, net, posted, runLog,
                   haltCause>>

\* the same call with the process killed inside fs.writeFileSync
SaveKilled ==
    /\ pc = "store"
    /\ Len(storeLog) < MaxStoreOps
    /\ \E i \in Ids :
          LET store == readProcessedIds(rawFile).ids IN
          /\ ~isInsightProcessed(store, i)
          /\ MarkProcessed(store, i, NoMeta)
          /\ rawFile' \in writeFileSync_Killed(rawFile,
                              Serialized(addProcessedInsight(store, i, NoMeta, config)))
          /\ atStart' = [atStart EXCEPT !.processed = store]
    /\ pc' = "killed"
    /\ UNCHANGED <<config, env, rlError, render, probe, failedIds, disk, inst, seeded, latest, rateLimit, now, exitCode,
                   batch, eligible, idx, currentAccountIndex, runs, net, posted, runLog,
                   haltCause>>

\* the next process reads whatever the killed one left
Reload ==
    /\ pc = "killed"
    /\ pc' = "store"
    /\ processed' = readProcessedIds(rawFile).ids
    /\ UNCHANGED <<config, env, rawFile, render, probe, failedIds, rlError, disk, inst, seeded, latest, rateLimit, now,
                   exitCode, batch, eligible, idx, currentAccountIndex, runs, net, posted,
                   runLog, haltCause, atStart, storeLog, lastAdd, evicted>>

NextCrash ==
    \/ Save
    \/ SaveKilled
    \/ Reload

SpecCrash == InitCrash /\ [][NextCrash]_vars

\* ================================================================ claims
Last(s) == s[Len(s)]

\* C1 (as stated): across any sequence of runs, whatever maxProcessedIds and
\* the fetch limit are, no insight id is successfully posted more than once.
C1_NoDuplicatePostEver == \A i \in Ids : posted[i] <= 1

\* C1 (amended): as long as writeProcessedIds has never dropped a record, no
\* insight id is successfully posted more than once.
C1_NoDuplicatePostWithoutEviction == (~evicted) => \A i \in Ids : posted[i] <= 1

\* an insight posted by an earlier run is met again and skipped as processed
C1_Witness ==
    /\ ~evicted
    /\ runs >= 2
    /\ runLog # <<>>
    /\ Last(runLog).res = "skipProcessed"
    /\ posted[Last(runLog).id] = 1

\* C2: a second addProcessedInsight with an id that is already present, with
\* whatever metadata, leaves the persisted list (length, order, records) as
\* the first call left it.
C2_IdempotentAppend == [][lastAdd'.present => processed' = processed]_vars

\* a call found its id present in a non-empty list
C2_Witness == lastAdd.present /\ Len(processed) >= 1 /\ Len(storeLog) >= 2

\* C3: from an empty store, through any dispatch and pre-seed runs, no two
\* records of the processed list have the same id.
C3_UniqueIds ==
    \A j, k \in 1..Len(processed) : j # k => processed[j].id # processed[k].id

\* the list holds a posted record and a pre-seeded one
C3_Witness ==
    /\ Len(processed) >= 2
    /\ \E j, k \in 1..Len(processed) : processed[j].preseeded /\ ~processed[k].preseeded

\* C4: after every write the list is no longer than maxProcessedIds, and it
\* holds the most recently appended ids in insertion order, the oldest dropped.
C4_EvictionBound ==
    /\ Len(processed) <= config.maxProcessedIds
    /\ StoreIds(processed) = SliceLast(storeLog, config.maxProcessedIds)

\* more ids were appended than the list may hold
C4_Witness == Len(storeLog) > config.maxProcessedIds /\ Len(processed) = config.maxProcessedIds

Ascending(insights) ==
    \A j, k \in 1..Len(insights) :
        j < k => insights[j].publishedAt <= insights[k].publishedAt

\* the batch carries instants only, newest first
NewestFirst(insights) ==
    /\ \A k \in 1..Len(insights) : insights[k].publishedAt >= 0
    /\ \A j, k \in 1..Len(insights) :
          j < k => insights[j].publishedAt >= insights[k].publishedAt

\* C5 (as stated): whatever the order of the batch, the filtered list is in
\* ascending publishedAt order.
C5_AscendingForAnyOrder ==
    (pc = "filtered" /\ \A k \in 1..Len(batch) : batch[k].publishedAt >= 0)
        => Ascending(eligible)

\* C5 (amended): for a batch the API delivers newest first, the filtered
\* list is in ascending publishedAt order.
C5_AscendingForNewestFirst ==
    (pc = "filtered" /\ NewestFirst(batch)) => Ascending(eligible)

\* a newest-first batch of three, two of which survive in turned order
C5_Witness ==
    /\ pc = "filtered"
    /\ NewestFirst(batch)
    /\ Len(batch) = 3
    /\ Len(eligible) >= 2
    /\ eligible[1].publishedAt < eligible[2].publishedAt

\* C6: an insight survives the filter exactly if now - publishedAt is at
\* least minimumAgeMinutes, and nothing younger is posted in the run.
AgeMinutesAtLeast(insight, t, m) == t - insight.publishedAt >= m * MsPerMinute

C6_AgeGate ==
    pc \in {"ratecheck", "dispatch"} =>
        /\ \A k \in 1..Len(batch) :
              (\E j \in 1..Len(eligible) : eligible[j] = batch[k])
                  <=> AgeMinutesAtLeast(batch[k], now, minimumAgeMinutes)
        /\ \A k \in 1..Len(runLog) :
              runLog[k].res = "sent" => AgeMinutesAtLeast(Item(runLog[k].id), now, minimumAgeMinutes)

\* of an insight 9 minutes old and one 11 minutes old, only the older is
\* eligible, and it has been posted
C6_Witness ==
    /\ pc = "dispatch"
    /\ \E k \in 1..Len(batch) : now - batch[k].publishedAt = 9 * MsPerMinute
    /\ Len(eligible) = 1
    /\ now - eligible[1].publishedAt = 11 * MsPerMinute
    /\ runLog # <<>>
    /\ Last(runLog).res = "sent"

\* C7: an insight whose publishedAt is null, absent or unparsable is never
\* eligible.
C7_FailClosed ==
    pc = "filtered" =>
        \A k \in 1..Len(eligible) :
            eligible[k].publishedAt \notin {NullPub, AbsentPub, GarbagePub}

\* C8: during dispatch an eligible insight is passed over without a send only
\* if its id is in the processed list; the latest marker alone never does it.
C8_MarkerAdvisory ==
    [][(pc = "dispatch" /\ idx' = idx + 1 /\ Last(runLog').attempts = 0)
          => isInsightProcessed(processed, eligible[idx].id)]_vars

RunEnded == pc \in {"done", "halted"}

DistinctIds(insights) ==
    \A j, k \in 1..Len(insights) : j # k => insights[j].id # insights[k].id

\* the run dispatched distinct insights, none of them processed when it
\* started, and the list had room for all of them
FreshBatch ==
    /\ DistinctIds(eligible)
    /\ \A j \in 1..Len(eligible) : ~isInsightProcessed(atStart.processed, eligible[j].id)
    /\ Len(atStart.processed) + Len(eligible) <= config.maxProcessedIds

\* item k is the first whose post got a rate-limit answer, the earlier ones
\* were posted
First429(k) ==
    /\ k <= Len(runLog)
    /\ runLog[k].r429
    /\ \A j \in 1..(k - 1) : ~runLog[j].r429 /\ runLog[j].res = "sent"

\* C9: when the post of item k is the first to raise a 429-class error, the run
\* ends Halted with items 1..k-1 processed, items k..n not processed and
\* items k+1..n never attempted.
C9_HaltOn429 ==
    \A k \in 1..Len(eligible) :
        (RunEnded /\ FreshBatch /\ First429(k)) =>
            /\ pc = "halted"
            /\ Len(runLog) = k
            /\ \A j \in 1..(k - 1) : isInsightProcessed(processed, eligible[j].id)
            /\ \A j \in k..Len(eligible) : ~isInsightProcessed(processed, eligible[j].id)

\* C10: a run halted by a post that failed with a rate-limit answer has
\* persisted a rate-limit record with a resetTimestamp.
C10_HaltPersistsRecord ==
    (pc = "halted" /\ haltCause = "post" /\ Last(runLog).status = 429)
        => rateLimit.resetTimestamp # 0

\* C11: once a post attempt of a run got a rate-limit answer, the run makes
\* no further post attempt, neither for the same insight nor for a later one.
C11_NoRetryAfter429 ==
    \A k \in 1..Len(runLog) :
        /\ ~runLog[k].after429
        /\ runLog[k].r429 => \A j \in (k + 1)..Len(runLog) : runLog[j].attempts = 0

\* C12: an iteration whose post fails with an error that is not rate-limit
\* class (no attempt was answered 429) does not end the run: the loop moves
\* on to the next insight.
C12_FailureNonFatal ==
    [][(/\ InLoop
        /\ Len(runLog') = Len(runLog) + 1
        /\ Last(runLog').attempts > 0
        /\ Last(runLog').status \notin {200, 429}
        /\ ~Last(runLog').r429)
          => (pc' = "dispatch" /\ idx' = idx + 1)]_vars

\* the persisted record names a reset instant that is still ahead
RecordActive == rateLimit.resetTimestamp # 0 /\ rateLimit.resetTimestamp * 1000 > now

\* C13: with a persisted record whose resetTimestamp > now the pre-check
\* refuses without a network call; with no record, or now >= resetTimestamp,
\* it goes on to the live probe.
C13_ShortCircuit ==
    [][pc = "ratecheck" =>
          IF RecordActive
          THEN pc' = "halted" /\ net' = net /\ "probe" \notin net'
          ELSE "probe" \in net']_vars

\* a run refused on the cached record alone
C13_Witness ==
    /\ pc = "halted"
    /\ haltCause = "cached"
    /\ RecordActive
    /\ net = {"fetch"}

\* C14: a run that starts while the persisted record names a reset instant
\* still ahead posts nothing and leaves the processed list and the latest
\* marker as it found them, on either platform.
C14_CooldownShortCircuit ==
    (/\ pc \in {"ratecheck", "dispatch", "done", "halted"}
     /\ atStart.rateLimit.resetTimestamp * 1000 > now)
        => /\ \A k \in 1..Len(runLog) : runLog[k].res # "sent"
           /\ processed = atStart.processed
           /\ latest = atStart.latest

SentAt == {k \in 1..Len(runLog) : runLog[k].res = "sent"}
LastSent == runLog[CHOOSE k \in SentAt : \A j \in SentAt : j <= k]

\* C15: after every successful post the insight is in the processed list and
\* the latest marker holds its id and publishedAt; at the end of a run with a
\* successful post the marker's id is that of the last insight posted.
C15_MarkerFollowsPost ==
    /\ (runLog # <<>> /\ Last(runLog).res = "sent") =>
            /\ isInsightProcessed(processed, Last(runLog).id)
            /\ latest = Item(Last(runLog).id)
    /\ (RunEnded /\ SentAt # {}) => latest.id = LastSent.id

\* C16: every successful post of a run is followed by the one-second pause
\* before the loop takes the next insight.
C16_PauseAfterPost ==
    \A k \in 1..Len(runLog) : runLog[k].res = "sent" => runLog[k].paused

\* C17: a pipeline process exits 0 exactly when it completed normally (the
\* batch was empty or the loop ran through the eligible list); on a
\* configuration error, a failed fetch, a refused pre-check and a rate-limit
\* halt during dispatch it exits non-zero.
C17_ExitSignalling ==
    pc \in {"done", "halted", "failed"} =>
        /\ exitCode \in {0, 1}
        /\ exitCode = 0 <=> (/\ pc = "done"
                             /\ net # {}
                             /\ haltCause = "none"
                             /\ batch = <<>> \/ idx > Len(eligible))

\* a run halted by a rate-limit answer after an earlier insight was posted
C17_Witness ==
    /\ pc = "halted"
    /\ haltCause = "post"
    /\ exitCode = 1
    /\ Len(runLog) >= 2
    /\ runLog[1].res = "sent"

\* post attempts allowed for one insight: photo (or text) plus the text
\* fallback on Telegram, one per configured account on Twitter
MaxAttempts == IF config.mode = "telegram" THEN 2 ELSE config.numAccounts

\* C18: a run that has fetched its batch ends Done or Halted, and no insight
\* is attempted more often than the platform's fallback chain is long.
C18_Termination ==
    /\ [](\A k \in 1..Len(runLog) : runLog[k].attempts <= MaxAttempts)
    /\ (pc \in {"ratecheck", "dispatch"}) ~> (pc \in {"done", "halted"})

\* a run ended Done after an insight took every attempt its platform allows
C18_Witness ==
    /\ pc = "done"
    /\ \E k \in 1..Len(runLog) : runLog[k].attempts = MaxAttempts /\ MaxAttempts = 2

\* the platform mode is none of the two, or the selected platform lacks a
\* credential or target for its environment (in test mode the chat id is the
\* test chat id, and a Twitter credential may come from its test variable)
ConfigBroken(e) ==
    \/ platformMode(e) \notin {"telegram", "twitter"}
    \/ /\ platformMode(e) = "telegram"
       /\ \/ ~e.token
          \/ e.testMode /\ ~e.testChatId
          \/ ~e.testMode /\ ~e.chatId
    \/ /\ platformMode(e) = "twitter"
       /\ \E f \in CredFields : f \notin e.creds /\ (e.testMode => f \notin e.testCreds)

\* C19: under a broken configuration the process exits non-zero before the
\* fetch, posts nothing and writes none of the three cache files.
C19_ConfigErrorFatal ==
    (runs >= 1 /\ ConfigBroken(env)) =>
        /\ pc = "failed"
        /\ exitCode = 1
        /\ net = {}
        /\ runLog = <<>>
        /\ processed = atStart.processed
        /\ latest = atStart.latest
        /\ rateLimit = atStart.rateLimit

\* a Twitter test-mode process whose credentials, test and production
\* variables together, still lack a field
C19_Witness ==
    /\ pc = "failed"
    /\ net = {}
    /\ ConfigBroken(env)
    /\ env.PLATFORM_MODE = "twitter"
    /\ env.testMode
    /\ env.creds # {}
    /\ env.testCreds # {}

\* the file exists and parses to an object whose processedIds is an array
HoldsArray(file) == file.exists /\ file.text = "object" /\ file.key = "array"

\* C20: readProcessedIds never throws; for a missing file, text that does
\* not parse, or a parsed value that is not an object holding an array
\* (JSON null included) it returns the empty list, and the process goes on.
C20_LoadFailsSoft ==
    pc # "load" =>
        /\ pc = "store"
        /\ atStart.processed = IF HoldsArray(rawFile) THEN rawFile.items ELSE <<>>

\* the file held JSON null; the process went on and appended a record
C20_Witness ==
    /\ pc = "store"
    /\ rawFile.exists
    /\ rawFile.text = "null"
    /\ atStart.processed = <<>>
    /\ Len(processed) >= 1

\* C21: after a process dies while saving the processed store, the file holds
\* either all of the previous contents or all of the new contents.
C21_AtomicSave ==
    pc = "killed" =>
        rawFile \in {Serialized(atStart.processed), Serialized(processed)}

\* C22: an iteration whose post was accepted and whose write of the processed
\* list failed is reported as sent, leaves the run going and moves the loop to
\* the next insight; the id stays unrecorded.
C22_WriteFailureNonFatal ==
    [][(/\ InLoop
        /\ posted' # posted
        /\ processed' = processed)
          => (/\ Last(runLog').res = "sent"
              /\ Last(runLog').paused
              /\ pc' = "dispatch"
              /\ exitCode' = exitCode
              /\ idx' = idx + 1
              /\ ~isInsightProcessed(processed', Cur.id))]_vars

\* the tiers of an error in the order user-daily, app-daily, general
TierList(error) ==
    <<[limitType |-> "user-daily", tier |-> error.rateLimit.userDay],
      [limitType |-> "app-daily", tier |-> error.rateLimit.day],
      [limitType |-> "general",
       tier |-> [present |-> error.rateLimit.present,
                 remaining |-> error.rateLimit.remaining,
                 reset |-> error.rateLimit.reset]]>>
Exhausted(error) ==
    {k \in 1..3 : TierList(error)[k].tier.present /\ TierList(error)[k].tier.remaining = 0}
FirstExhausted(error) ==
    TierList(error)[CHOOSE k \in Exhausted(error) : \A j \in Exhausted(error) : k <= j]

\* C23: when a rate-limit error with at least one exhausted tier has been
\* cached, the record names the first exhausted tier in the order user-daily,
\* app-daily, general, and its resetTimestamp is that tier's reset.
C23_TierPriority ==
    (pc = "cached" /\ Exhausted(rlError) # {}) =>
        /\ rateLimit.limitType = FirstExhausted(rlError).limitType
        /\ rateLimit.resetTimestamp = FirstExhausted(rlError).tier.reset

\* app-daily and general both exhausted with different resets, user-daily
\* present with tweets left: the record is the app-daily one
C23_Witness ==
    /\ pc = "cached"
    /\ Exhausted(rlError) = {2, 3}
    /\ rlError.rateLimit.userDay.present
    /\ rlError.rateLimit.day.reset # rlError.rateLimit.reset
    /\ rateLimit = [limitType |-> "app-daily", resetTimestamp |-> rlError.rateLimit.day.reset]
    /\ atStart.rateLimit # rateLimit

\* C24: when the pre-check's live probe was answered 429 and the run was
\* refused, the rate-limit file holds a record that is still active, so that
\* the next run is refused from the file.
C24_Probe429Persisted ==
    (pc = "halted" /\ haltCause = "probe429") => RecordActive

\* C25: the test-prefixed cache files are read and written by test-mode
\* processes only and the unprefixed ones by production processes only; the
\* mode of a process stays what it was at its start; and no step of a
\* test-mode process changes the data of a production file.
C25_CacheIsolation ==
    /\ [](\A f \in FileNames :
            disk[f].readers \cup disk[f].writers
                \subseteq (IF f \in TestFiles THEN {"test"} ELSE {"production"}))
    /\ [][pc = "running" => env' = env]_vars
    /\ [][(pc = "running" /\ env.testMode) =>
              \A f \in ProductionFiles : disk'[f].data = disk[f].data]_vars

\* a test-mode process has written its three files after a production
\* process wrote the production list, and their contents differ
C25_Witness ==
    /\ pc = "running"
    /\ env.testMode
    /\ \A f \in TestFiles : disk[f].writers = {"test"}
    /\ disk["processed_insights.cache.json"].writers = {"production"}
    /\ disk["processed_insights.cache.json"].data
          # disk["test_processed_insights.cache.json"].data
    /\ disk["rate_limit.cache.json"].data = NoRateLimit

\* C26: in a test-mode run that has posted, a Telegram message went to the
\* test chat and a tweet was signed with test credentials only.
C26_TestModeTargets ==
    (env.testMode /\ \E i \in Ids : posted[i] > 0) =>
        IF config.mode = "telegram" THEN chatTarget(env) = "test"
        ELSE \A f \in CredFields : credentialSource(env, f) = "test"

\* item j of instance k's list was posted and accepted
LoopSent(k, j) == j <= Len(inst[k].out) /\ inst[k].out[j] = "sent"

LoopActive(k) == inst[k].pc \notin {"done", "halted"}

\* C28: with two instances on the same cache files, no instance ever has to
\* wait for the other: each step of one is possible whatever the other is
\* doing, so both may post the same id and one may write back a list read
\* before the other's append.
C28_NoMutualExclusion ==
    \A k \in DOMAIN inst : LoopActive(k) => ENABLED LStep(k)

\* both instances posted item 1, and item 2, appended by the second, is gone
\* after the first wrote back the list it had read, with room left in it
C28_Witness ==
    /\ posted[1] = 2
    /\ 1 \in inst[1].saved
    /\ 2 \in inst[2].saved
    /\ ~isInsightProcessed(processed, 2)
    /\ Len(processed) < config.maxProcessedIds

\* what C29 says of a state
PreseedHolds ==
    /\ pc = "preseeded" =>
          /\ \A k \in 1..Len(batch) : isInsightProcessed(processed, batch[k].id)
          /\ "post" \notin net
          /\ runLog = <<>>
    /\ \A k \in 1..Len(runLog) : runLog[k].res = "sent" => runLog[k].id \notin seeded

\* C29 (as stated): whatever the fetch limit and maxProcessedIds, when a
\* pre-seed has completed every fetched id is in the processed list and the
\* pre-seed posted nothing, and a normal run after it posts none of the ids it
\* marked.
C29_PreseedPreventsBackfill == PreseedHolds

\* C29 (amended): the same as long as writeProcessedIds has never dropped a
\* record.
C29_PreseedPreventsBackfillWithoutEviction == (~evicted) => PreseedHolds

\* a normal run after a pre-seed skipped an id the pre-seed had marked and
\* posted another
C29_Witness ==
    /\ ~evicted
    /\ pc = "done"
    /\ \E k \in 1..Len(runLog) : runLog[k].res = "skipProcessed" /\ runLog[k].id \in seeded
    /\ \E k \in 1..Len(runLog) : runLog[k].res = "sent"
    /\ \A i \in seeded : posted[i] = 0

\* C30: every id in the processed list was pre-seeded or accepted by the
\* platform at least once, and an iteration that skips an insight as too old,
\* fails or halts leaves the processed list as it was.
C30_ProcessedMeansDelivered ==
    /\ [](\A k \in 1..Len(processed) :
            processed[k].id \in seeded \/ posted[processed[k].id] >= 1)
    /\ [][(Len(runLog') = Len(runLog) + 1
            /\ Last(runLog').res \in {"skipProcessed", "skipOld", "failed", "halt"})
              => processed' = processed]_vars

\* the list holds a pre-seeded id and a delivered one after a run in which
\* another insight failed and stayed out of the list
C30_Witness ==
    /\ pc = "done"
    /\ \E k \in 1..Len(processed) : processed[k].id \in seeded /\ posted[processed[k].id] = 0
    /\ \E k \in 1..Len(processed) : processed[k].id \notin seeded /\ posted[processed[k].id] = 1
    /\ \E k \in 1..Len(runLog) :
          runLog[k].res = "failed" /\ ~isInsightProcessed(processed, runLog[k].id)

\* C31: with a Telegram and a Twitter instance on one installation, an
\* instance skips an insight as already processed only if its own platform
\* recorded it.
C31_IndependentPlatformState ==
    \A k \in 1..Len(runLog) :
        runLog[k].res = "skipProcessed" =>
            \A j \in 1..Len(processed) :
                processed[j].id = runLog[k].id => processed[j].platform = config.mode

\* C32: an insight whose backgroundType is neither 'image' nor 'color' gets
\* no image from the renderer and is sent as text; a photo is sent only for
\* backgroundType 'image' and 'color'.
C32_RendererSelection ==
    render.image # "none" =>
        /\ render.insight.backgroundType \notin {"image", "color"} =>
              (render.image = "null" /\ render.sent = "text")
        /\ render.sent = "photo" => render.insight.backgroundType \in {"image", "color"}

\* C33: an eligible insight whose post failed without a halt in an earlier
\* process, and which is not in the processed list, is sent again when a later
\* run reaches it: it is never passed over as too old.
C33_FailedItemRetried ==
    \A k \in 1..Len(runLog) :
        runLog[k].id \in failedIds => runLog[k].res # "skipOld"

\* C34: a post that fails ends the run exactly when the error sendMessage
\* threw carries status 429 or code 429; with any other status the failure is
\* logged and the loop goes on to the next insight.
C34_HaltIffRateLimited ==
    [][(/\ InLoop
        /\ Len(runLog') = Len(runLog) + 1
        /\ Last(runLog').attempts > 0
        /\ Last(runLog').status # 200)
          => IF Last(runLog').status = 429
             THEN pc' = "halted"
             ELSE pc' = "dispatch" /\ idx' = idx + 1]_vars

C36_RecordOnlyOnHalt ==
    (pc = "done" /\ runs >= 1) => rateLimit = atStart.rateLimit

\* C37: an iteration that skips an insight, as already processed or as older
\* than the marker, makes no send (sendMessage, which renders and posts, is
\* not called), and an iteration whose post fails, with whatever error,
\* leaves the processed list and the latest marker as they were.
C37_NonSendingFrame ==
    [][(InLoop /\ Len(runLog') = Len(runLog) + 1)
          => LET e == Last(runLog') IN
             /\ e.res \in {"skipProcessed", "skipOld"} =>
                   /\ e.attempts = 0 /\ ~e.photo
                   /\ posted' = posted /\ net' = net
                   /\ processed' = processed /\ latest' = latest
             /\ e.res \in {"failed", "halt"} =>
                   /\ e.attempts > 0
                   /\ posted' = posted
                   /\ processed' = processed /\ latest' = latest]_vars

\* a run that skipped a processed insight and then failed to post another:
\* list and marker are those the run started with
C37_Witness ==
    /\ pc = "done"
    /\ Len(runLog) = 2
    /\ runLog[1].res = "skipProcessed"
    /\ runLog[2].res = "failed"
    /\ processed = atStart.processed /\ processed # <<>>
    /\ latest = atStart.latest

\* C38: every overwrite of a latest marker that holds a valid timestamp
\* stores a publishedAt that is valid and not smaller than the one it replaces.
C38_MarkerMonotone ==
    [][(Truthy(latest.publishedAt) /\ latest' # latest)
          => /\ Truthy(latest'.publishedAt)
             /\ ~NumLT(ParseDate(latest'.publishedAt), ParseDate(latest.publishedAt))
             /\ latest'.publishedAt >= latest.publishedAt]_vars

\* a second run moved the marker of the first forward after passing over an
\* insight older than it
C38_Witness ==
    /\ Truthy(atStart.latest.publishedAt)
    /\ latest.publishedAt > atStart.latest.publishedAt
    /\ \E k \in 1..Len(runLog) : runLog[k].res = "skipOld"

\* C39: when sendInsightToTwitter has posted an insight, the current account
\* index is 0, whatever switches and failures came before in the process.
C39_ResetToPrimary ==
    [][(/\ InLoop
        /\ config.mode = "twitter"
        /\ Len(runLog') = Len(runLog) + 1
        /\ Last(runLog').res = "sent")
          => currentAccountIndex' = 0]_vars

\* the quota read named no posts left on /statuses/update
ZeroRemaining(q) == IsOk(q) /\ q.rateLimit.present /\ q.rateLimit.remaining = 0

====
